---------------------------- MODULE Spec2Model ----------------------------
(***************************************************************************)
(* A model of the core of PyMMLib (mmLib): the Structure / Model / Chain /  *)
(* Fragment / Atom / Altloc hierarchy of Structure.py and the mmCIF         *)
(* tokenizer, parser and writer of mmCIF.py.                                *)
(*                                                                          *)
(* Python objects live in heaps (sequences of records); a reference is the  *)
(* index of the object in its heap and 0 stands for None.  Text is a        *)
(* sequence of one-character strings wherever the code looks inside it.     *)
(***************************************************************************)
EXTENDS Integers, Sequences, FiniteSets, TLC

VARIABLES
    structure,  \* the Structure object: default_alt_loc, default_model, model_list, model_dict
    models,     \* heap of Model objects
    chains,     \* heap of Chain objects
    frags,      \* heap of Fragment objects
    atoms,      \* heap of Atom objects
    last,       \* the last call made on the hierarchy and how it ended
    fil,        \* the text file: a sequence of lines
    cife,       \* the mmCIFElementFile tokenizer state
    parser,     \* the mmCIFFileParser state
    cif_file,   \* the list of data sections handed to the writer
    twin,       \* a second hierarchy, loaded with delayed sorting
    annots,     \* heap of AlphaHelix, BetaSheet and Site objects
    xyzdict,    \* the XYZDict object: resolution, geom_dict
    yielded,    \* what the last iteration over the XYZDict yielded
    points      \* the (position, item) pairs handed to XYZDict.add, in call order

vars == <<structure, models, chains, frags, atoms, last, fil, cife, parser, cif_file,
          twin, annots, xyzdict, yielded, points>>

struct_vars == <<structure, models, chains, frags, atoms, last>>
cif_vars == <<fil, cife, parser, cif_file>>
load_vars == <<twin, annots>>
geom_vars == <<xyzdict, yielded, points>>

-----------------------------------------------------------------------------
(* Bounds of the model *)

MaxAtoms == 2
MaxFragAtoms == 3

-----------------------------------------------------------------------------
(* Python containers *)

None == 0

EmptyDict == [k \in {} |-> 0]

has_key(d, k) == k \in DOMAIN d

DictSet(d, k, v) == [x \in (DOMAIN d) \cup {k} |-> IF x = k THEN v ELSE d[x]]

DictDel(d, k) == [x \in (DOMAIN d) \ {k} |-> d[x]]

\* list[p] = x for a 0-based p >= 0, with the callers' "except IndexError: append"
ListSetOrAppend(l, p, x) ==
    IF p < Len(l) THEN [l EXCEPT ![p + 1] = x] ELSE Append(l, x)

\* del list[p], were it to delete nothing
ListDelOrPass_keep(l, p) == l

\* del list[p] for a 0-based p >= 0, with the callers' "except IndexError: pass"
ListDelOrPass(l, p) ==
    IF p < Len(l)
    THEN [j \in 1..(Len(l) - 1) |-> IF j <= p THEN l[j] ELSE l[j + 1]]
    ELSE l

\* list.index(x): the 1-based position of the first element equal to x, 0 when absent
ListIndex(l, x) ==
    IF \E j \in 1..Len(l) : l[j] = x
    THEN CHOOSE j \in 1..Len(l) : l[j] = x /\ \A k \in 1..(j - 1) : l[k] # x
    ELSE 0

\* list.remove(x): the list without its first element equal to x
ListRemove(l, x) ==
    LET i == ListIndex(l, x)
    IN  IF i = 0 THEN l
        ELSE [j \in 1..(Len(l) - 1) |-> IF j < i THEN l[j] ELSE l[j + 1]]

Range(l) == {l[j] : j \in 1..Len(l)}

\* list.sort() is stable and compares with < only; LT is the set of pairs
\* <<x, y>> with x < y.  Insertion of x after the last element not greater than it
RECURSIVE InsertSorted(_, _, _)
InsertSorted(l, x, LT) ==
    IF l = <<>> THEN <<x>>
    ELSE IF <<x, l[Len(l)]>> \in LT
         THEN Append(InsertSorted(SubSeq(l, 1, Len(l) - 1), x, LT), l[Len(l)])
         ELSE Append(l, x)

\* list.sort(), were it to leave the list as it is
ListSort_keep(l, LT) == l

RECURSIVE ListSort(_, _)
ListSort(l, LT) ==
    IF l = <<>> THEN <<>>
    ELSE InsertSorted(ListSort(SubSeq(l, 1, Len(l) - 1), LT), l[Len(l)], LT)

-----------------------------------------------------------------------------
(* Characters *)

uppercase == <<"A", "B", "C", "D", "E", "F", "G", "H", "I", "J", "K", "L", "M",
               "N", "O", "P", "Q", "R", "S", "T", "U", "V", "W", "X", "Y", "Z">>

digits == <<"0", "1", "2", "3", "4", "5", "6", "7", "8", "9">>

IsDigit(c) == \E j \in 1..Len(digits) : digits[j] = c

DigitVal(c) == (CHOOSE j \in 1..Len(digits) : digits[j] = c) - 1

\* the order of the characters the ids are made of, as in ASCII:
\* digits before uppercase letters
ord(c) ==
    IF IsDigit(c) THEN 48 + DigitVal(c)
    ELSE 64 + (CHOOSE j \in 1..Len(uppercase) : uppercase[j] = c)

\* int(s) of a digit string; ok is FALSE where int() raises ValueError
RECURSIVE IntValue(_)
IntValue(s) ==
    IF s = <<>> THEN 0
    ELSE 10 * IntValue(SubSeq(s, 1, Len(s) - 1)) + DigitVal(s[Len(s)])

int(s) ==
    IF s # <<>> /\ \A j \in 1..Len(s) : IsDigit(s[j])
    THEN [ok |-> TRUE, val |-> IntValue(s)]
    ELSE [ok |-> FALSE, val |-> 0]

-----------------------------------------------------------------------------
(* Fragment ids *)

\* (sequence_num, insertion_code); icode is <<>> for None
fragment_id_split(frag_id) ==
    IF int(frag_id).ok
    THEN [res_seq |-> int(frag_id).val, icode |-> <<>>]
    ELSE [res_seq |-> int(SubSeq(frag_id, 1, Len(frag_id) - 1)).val,
          icode |-> SubSeq(frag_id, Len(frag_id), Len(frag_id))]

\* the comparison of the tuples, were it to look at the numbers only
TupleLt_numbers_only(t1, t2) == t1.res_seq < t2.res_seq

\* Python 2 tuple comparison: None sorts before every string
TupleLt(t1, t2) ==
    \/ t1.res_seq < t2.res_seq
    \/ /\ t1.res_seq = t2.res_seq
       /\ \/ t1.icode = <<>> /\ t2.icode # <<>>
          \/ t1.icode # <<>> /\ t2.icode # <<>> /\ ord(t1.icode[1]) < ord(t2.icode[1])

fragment_id_eq(frag_id1, frag_id2) == frag_id1 = frag_id2

fragment_id_lt(frag_id1, frag_id2) ==
    TupleLt(fragment_id_split(frag_id1), fragment_id_split(frag_id2))

fragment_id_le(frag_id1, frag_id2) ==
    \/ TupleLt(fragment_id_split(frag_id1), fragment_id_split(frag_id2))
    \/ fragment_id_split(frag_id1) = fragment_id_split(frag_id2)

fragment_id_gt(frag_id1, frag_id2) ==
    TupleLt(fragment_id_split(frag_id2), fragment_id_split(frag_id1))

fragment_id_ge(frag_id1, frag_id2) ==
    \/ TupleLt(fragment_id_split(frag_id2), fragment_id_split(frag_id1))
    \/ fragment_id_split(frag_id1) = fragment_id_split(frag_id2)

-----------------------------------------------------------------------------
(* Altloc *)

\* calc_next_alt_loc_id, were it to count the members instead of looking
\* for the first label that is free
calc_next_alt_loc_id_count(altloc) ==
    IF Cardinality(DOMAIN altloc) < Len(uppercase)
    THEN [ok |-> TRUE, alt_loc |-> uppercase[Cardinality(DOMAIN altloc) + 1]]
    ELSE [ok |-> FALSE, alt_loc |-> ""]

\* calc_next_alt_loc_id, were it to hand out "A" again when no label is free
calc_next_alt_loc_id_reuse(altloc) ==
    [ok |-> TRUE,
     alt_loc |-> IF \E j \in 1..Len(uppercase) : ~has_key(altloc, uppercase[j])
                 THEN uppercase[CHOOSE j \in 1..Len(uppercase) :
                                   /\ ~has_key(altloc, uppercase[j])
                                   /\ \A k \in 1..(j - 1) : has_key(altloc, uppercase[k])]
                 ELSE "A"]

calc_next_alt_loc_id(altloc) ==
    IF DOMAIN altloc = {} THEN [ok |-> TRUE, alt_loc |-> "A"]
    ELSE IF \E j \in 1..Len(uppercase) : ~has_key(altloc, uppercase[j])
         THEN [ok |-> TRUE,
               alt_loc |-> uppercase[CHOOSE j \in 1..Len(uppercase) :
                              /\ ~has_key(altloc, uppercase[j])
                              /\ \A k \in 1..(j - 1) : has_key(altloc, uppercase[k])]]
         ELSE [ok |-> FALSE, alt_loc |-> ""]

\* must the atom be given a new label?
Altloc_relabels(altloc, alt_loc) == has_key(altloc, alt_loc) \/ alt_loc = ""

\* Altloc.add_atom: the Altloc, the atom heap, and the error raised ("" for none)
Altloc_add_atom(altloc, atms, a, owner) ==
    LET relabel == Altloc_relabels(altloc, atms[a].alt_loc)
        next    == calc_next_alt_loc_id(altloc)
        label   == IF relabel THEN next.alt_loc ELSE atms[a].alt_loc
    IN  IF relabel /\ ~next.ok
        THEN [altloc |-> altloc, atoms |-> atms, err |-> "AtomOverwrite"]
        ELSE [altloc |-> DictSet(altloc, label, a),
              atoms  |-> [atms EXCEPT ![a].alt_loc = label, ![a].altloc = owner],
              err    |-> ""]

\* Altloc.remove_atom, were it to keep the atom under its label
Altloc_remove_atom_keep(altloc, atms, a) ==
    [altloc |-> altloc,
     atoms  |-> [atms EXCEPT ![a].altloc = None]]

Altloc_remove_atom(altloc, atms, a) ==
    [altloc |-> DictDel(altloc, atms[a].alt_loc),
     atoms  |-> [atms EXCEPT ![a].altloc = None]]

\* iter(Altloc): the members in the order of their sorted labels
Altloc_iter(altloc) ==
    LET present == {j \in 1..Len(uppercase) : has_key(altloc, uppercase[j])}
        RECURSIVE Walk(_)
        Walk(j) == IF j > Len(uppercase) THEN <<>>
                   ELSE IF j \in present THEN <<altloc[uppercase[j]]>> \o Walk(j + 1)
                   ELSE Walk(j + 1)
    IN  Walk(1)

-----------------------------------------------------------------------------
(* Atom and Fragment *)

\* Atom.__init__; element and position are the defaults ("" and None, written
\* <<>>) of an Atom made without them
Atom(name, alt_loc, res_name, fragment_id, chain_id, model_id) ==
    [name |-> name, alt_loc |-> alt_loc, res_name |-> res_name,
     fragment_id |-> fragment_id, chain_id |-> chain_id, model_id |-> model_id,
     fragment |-> None, altloc |-> None,
     element |-> "", position |-> <<>>, bond_list |-> <<>>]

\* the label a new Fragment starts with
NewFragmentAltLoc == "A"

\* Fragment.__init__
Fragment(model_id, chain_id, fragment_id, res_name) ==
    [chain |-> None, model_id |-> model_id, chain_id |-> chain_id,
     fragment_id |-> fragment_id, res_name |-> res_name,
     default_alt_loc |-> NewFragmentAltLoc,
     atom_order_list |-> <<>>, alt_loc_dict |-> EmptyDict,
     atom_list |-> <<>>, atom_dict |-> EmptyDict]

\* the entries of atom_order_list: an Atom, or the Altloc of a name
AtomEntry(atms, a) == [altloc |-> FALSE, atom |-> a, name |-> atms[a].name]
AltlocEntry(name)  == [altloc |-> TRUE, atom |-> None, name |-> name]

\* the name deleted from atom_dict for an Altloc without the label: that of
\* the first member itervalues() yields (all members carry the Altloc's name)
Altloc_first_names(altloc, atms) ==
    {atms[altloc[l]].name : l \in DOMAIN altloc}

\* the loop of Fragment.set_default_alt_loc over enumerate(atom_order_list);
\* i is 1-based here, so the code's i is i - 1
RECURSIVE set_default_alt_loc_loop(_, _, _, _, _, _, _)
set_default_alt_loc_loop(f, atms, alt_loc, i, ishift, atom_list, atom_dict) ==
    IF i > Len(f.atom_order_list)
    THEN [f EXCEPT !.default_alt_loc = alt_loc,
                   !.atom_list = atom_list, !.atom_dict = atom_dict]
    ELSE LET atm == f.atom_order_list[i]
             p   == (i - 1) - ishift
         IN  IF ~atm.altloc
             THEN \* case 1: atom has no alt_locs
                  set_default_alt_loc_loop(f, atms, alt_loc, i + 1, ishift,
                      ListSetOrAppend(atom_list, p, atm.atom),
                      DictSet(atom_dict, atm.name, atm.atom))
             ELSE LET altloc == f.alt_loc_dict[atm.name]
                  IN  IF ~has_key(altloc, alt_loc)
                      THEN \* case 2: no partner for this alt_loc
                           set_default_alt_loc_loop(f, atms, alt_loc, i + 1, ishift + 1,
                               ListDelOrPass(atom_list, p),
                               [n \in (DOMAIN atom_dict) \ Altloc_first_names(altloc, atms)
                                   |-> atom_dict[n]])
                      ELSE \* case 3: a partner for this alt_loc
                           set_default_alt_loc_loop(f, atms, alt_loc, i + 1, ishift,
                               ListSetOrAppend(atom_list, p, altloc[alt_loc]),
                               DictSet(atom_dict, atms[altloc[alt_loc]].name, altloc[alt_loc]))

\* Fragment.set_default_alt_loc
Fragment_set_default_alt_loc(f, atms, alt_loc) ==
    set_default_alt_loc_loop(f, atms, alt_loc, 1, 0, f.atom_list, f.atom_dict)

\* The branches of Fragment.add_atom yield the fragment and the atom heap as
\* they are before the branch's closing set_default_alt_loc call; refresh
\* tells whether the branch makes that call.

\* an atom of the name is there without Altloc: it moves into a new Altloc,
\* which takes its place in atom_order_list, and the new atom joins it
add_atom_promote(f, atms, a, fh) ==
    LET name  == atms[a].name
        atomA == f.atom_dict[name]
        iA    == ListIndex(f.atom_order_list, AtomEntry(atms, atomA))
        r1    == Altloc_add_atom(EmptyDict, atms, atomA, fh)
        r2    == Altloc_add_atom(r1.altloc, r1.atoms, a, fh)
    IN  IF iA = 0
        THEN [frag |-> f, atoms |-> atms, err |-> "ValueError", refresh |-> FALSE]
        ELSE [frag |-> [f EXCEPT !.alt_loc_dict = DictSet(@, name, r2.altloc),
                                 !.atom_order_list = [@ EXCEPT ![iA] = AltlocEntry(name)]],
              atoms |-> r2.atoms, err |-> "", refresh |-> TRUE]

\* an Altloc of the name is there: the atom joins it
add_atom_partner(f, atms, a, fh) ==
    LET name == atms[a].name
        r    == Altloc_add_atom(f.alt_loc_dict[name], atms, a, fh)
    IN  IF r.err # ""
        THEN [frag |-> f, atoms |-> atms, err |-> r.err, refresh |-> FALSE]
        ELSE [frag |-> [f EXCEPT !.alt_loc_dict = DictSet(@, name, r.altloc)],
              atoms |-> r.atoms, err |-> "", refresh |-> TRUE]

\* the plain add, were it to leave the atom out of atom_order_list
add_atom_plain_unlisted(f, atms, a) ==
    [frag |-> [f EXCEPT !.atom_list = Append(@, a),
                        !.atom_dict = DictSet(@, atms[a].name, a)],
     atoms |-> atms, err |-> "", refresh |-> FALSE]

\* no atom of the name is there and the atom has no label
add_atom_plain(f, atms, a) ==
    [frag |-> [f EXCEPT !.atom_order_list = Append(@, AtomEntry(atms, a)),
                        !.atom_list = Append(@, a),
                        !.atom_dict = DictSet(@, atms[a].name, a)],
     atoms |-> atms, err |-> "", refresh |-> FALSE]

\* no atom of the name is there and the atom has a label: a new Altloc
add_atom_first_labelled(f, atms, a, fh) ==
    LET name == atms[a].name
        r    == Altloc_add_atom(EmptyDict, atms, a, fh)
    IN  [frag |-> [f EXCEPT !.alt_loc_dict = DictSet(@, name, r.altloc),
                            !.atom_order_list = Append(@, AltlocEntry(name)),
                            !.atom_list = Append(@, a),
                            !.atom_dict = DictSet(@, name, a)],
         atoms |-> r.atoms, err |-> "", refresh |-> TRUE]

\* Fragment.add_atom of atom a to the fragment f, whose reference is fh
Fragment_add_atom(f, atms, a, fh) ==
    LET name == atms[a].name
        r == IF has_key(f.alt_loc_dict, name) THEN add_atom_partner(f, atms, a, fh)
             ELSE IF has_key(f.atom_dict, name) THEN add_atom_promote(f, atms, a, fh)
             ELSE IF atms[a].alt_loc = "" THEN add_atom_plain(f, atms, a)
             ELSE add_atom_first_labelled(f, atms, a, fh)
    IN  IF r.err # "" THEN [frag |-> f, atoms |-> atms, err |-> r.err]
        ELSE [frag  |-> IF r.refresh
                        THEN Fragment_set_default_alt_loc(r.frag, r.atoms, f.default_alt_loc)
                        ELSE r.frag,
              atoms |-> [r.atoms EXCEPT ![a].fragment = fh],
              err   |-> ""]

\* Fragment.remove_atom
Fragment_remove_atom(f, atms, a) ==
    LET name == atms[a].name
        r == IF has_key(f.alt_loc_dict, name)
             THEN LET altloc == f.alt_loc_dict[name]
                  IN  IF has_key(altloc, atms[a].alt_loc)
                      THEN LET ra == Altloc_remove_atom(altloc, atms, a)
                               f2 == IF DOMAIN ra.altloc = {}
                                     THEN [f EXCEPT !.alt_loc_dict = DictDel(@, name),
                                                    !.atom_order_list =
                                                        ListRemove(@, AltlocEntry(name))]
                                     ELSE [f EXCEPT !.alt_loc_dict = DictSet(@, name, ra.altloc)]
                               f3 == IF a \in Range(f2.atom_list)
                                     THEN [f2 EXCEPT !.atom_list = ListRemove(@, a),
                                                     !.atom_dict = DictDel(@, name)]
                                     ELSE f2
                           IN  [frag |-> f3, atoms |-> ra.atoms]
                      ELSE [frag |-> f, atoms |-> atms]
             ELSE [frag |-> [f EXCEPT !.atom_order_list = ListRemove(@, AtomEntry(atms, a)),
                                      !.atom_list = ListRemove(@, a),
                                      !.atom_dict = DictDel(@, name)],
                   atoms |-> atms]
    IN  [frag |-> r.frag, atoms |-> [r.atoms EXCEPT ![a].fragment = None]]

\* Fragment.iter_all_atoms
RECURSIVE iter_all_atoms_from(_, _)
iter_all_atoms_from(f, i) ==
    IF i > Len(f.atom_order_list) THEN <<>>
    ELSE LET atm == f.atom_order_list[i]
         IN  (IF atm.altloc THEN Altloc_iter(f.alt_loc_dict[atm.name]) ELSE <<atm.atom>>)
             \o iter_all_atoms_from(f, i + 1)

Fragment_iter_all_atoms(f) == iter_all_atoms_from(f, 1)

-----------------------------------------------------------------------------
(* Structure, Model, Chain: operations on the whole hierarchy.  W is the    *)
(* record of the five heaps; every operation yields the new W and the error *)
(* it raised ("" for none), W holding what was changed before the raise.    *)

\* the reference children keep to the one Structure
StructureRef == 1

\* Structure.__init__
Structure0 ==
    [default_alt_loc |-> "A", default_model |-> None,
     model_list |-> <<>>, model_dict |-> EmptyDict]

\* Model.__init__
Model(model_id) ==
    [structure |-> None, model_id |-> model_id,
     chain_dict |-> EmptyDict, chain_list |-> <<>>,
     alpha_helix_list |-> <<>>, beta_sheet_list |-> <<>>, site_list |-> <<>>]

\* Segment.__init__ / Chain.__init__
Chain(model_id, chain_id) ==
    [model |-> None, model_id |-> model_id, chain_id |-> chain_id,
     fragment_list |-> <<>>, fragment_dict |-> EmptyDict]

World == [structure |-> structure, models |-> models, chains |-> chains,
          frags |-> frags, atoms |-> atoms]

Ok(W) == [W |-> W, err |-> ""]
Raise(W, e) == [W |-> W, err |-> e]

\* Model.__lt__
Model_lt(W) ==
    {<<x, y>> \in (1..Len(W.models)) \X (1..Len(W.models)) :
        W.models[x].model_id < W.models[y].model_id}

\* Segment.__lt__: chain_id strings of one character
Segment_lt(W) ==
    {<<x, y>> \in (1..Len(W.chains)) \X (1..Len(W.chains)) :
        ord(W.chains[x].chain_id) < ord(W.chains[y].chain_id)}

\* Fragment.__lt__
Fragment_lt(W) ==
    {<<x, y>> \in (1..Len(W.frags)) \X (1..Len(W.frags)) :
        fragment_id_lt(W.frags[x].fragment_id, W.frags[y].fragment_id)}

\* Structure.add_model
Structure_add_model(W, m, delay_sort) ==
    IF has_key(W.structure.model_dict, W.models[m].model_id)
    THEN Raise(W, "ModelOverwrite")
    ELSE LET s1 == [W.structure EXCEPT
                       !.default_model = IF @ = None THEN m ELSE @,
                       !.model_list = Append(@, m),
                       !.model_dict = DictSet(@, W.models[m].model_id, m)]
             W1 == [W EXCEPT !.structure = s1,
                             !.models = [@ EXCEPT ![m].structure = StructureRef]]
         IN  Ok(IF delay_sort THEN W1
                ELSE [W1 EXCEPT !.structure.model_list = ListSort(@, Model_lt(W1))])

\* remove_model, were it to leave the Structure without a default Model
new_default_model_none(model_list) == None

\* the default Model chosen when the default Model is removed
new_default_model(model_list) ==
    IF Len(model_list) > 0 THEN model_list[1] ELSE None

\* Structure.remove_model
Structure_remove_model(W, m) ==
    IF m \notin Range(W.structure.model_list) THEN Raise(W, "ValueError")
    ELSE LET s1 == [W.structure EXCEPT !.model_list = ListRemove(@, m)]
             W1 == [W EXCEPT !.structure = s1]
         IN  IF ~has_key(s1.model_dict, W.models[m].model_id) THEN Raise(W1, "KeyError")
             ELSE LET s2 == [s1 EXCEPT !.model_dict = DictDel(@, W.models[m].model_id)]
                      s3 == IF m = s2.default_model
                            THEN [s2 EXCEPT !.default_model = new_default_model(s2.model_list)]
                            ELSE s2
                  IN  Ok([W1 EXCEPT !.structure = s3,
                                    !.models = [@ EXCEPT ![m].structure = None]])

\* Model.add_chain
Model_add_chain(W, m, c, delay_sort) ==
    IF has_key(W.models[m].chain_dict, W.chains[c].chain_id)
    THEN Raise(W, "ChainOverwrite")
    ELSE LET W1 == [W EXCEPT
                       !.models = [@ EXCEPT ![m].chain_list = Append(@, c),
                                            ![m].chain_dict = DictSet(@, W.chains[c].chain_id, c)],
                       !.chains = [@ EXCEPT ![c].model = m]]
         IN  Ok(IF delay_sort THEN W1
                ELSE [W1 EXCEPT !.models = [@ EXCEPT ![m].chain_list =
                                                ListSort(@, Segment_lt(W1))]])

\* add_fragment, were it to take every fragment_id as free
fragment_id_used_never(fragment_dict, fragment_id) == FALSE

\* is the fragment_id taken in the chain?
fragment_id_used(fragment_dict, fragment_id) == has_key(fragment_dict, fragment_id)

\* Chain.add_fragment (Segment.add_fragment, then the back-reference)
Chain_add_fragment(W, c, fh, delay_sort) ==
    IF fragment_id_used(W.chains[c].fragment_dict, W.frags[fh].fragment_id)
    THEN Raise(W, "FragmentOverwrite")
    ELSE LET W1 == [W EXCEPT
                       !.chains = [@ EXCEPT
                           ![c].fragment_list = Append(@, fh),
                           ![c].fragment_dict = DictSet(@, W.frags[fh].fragment_id, fh)]]
             W2 == IF delay_sort THEN W1
                   ELSE [W1 EXCEPT !.chains = [@ EXCEPT ![c].fragment_list =
                                                   ListSort(@, Fragment_lt(W1))]]
         IN  Ok([W2 EXCEPT !.frags = [@ EXCEPT ![fh].chain = c]])

\* the call of Fragment.add_atom on the fragment fh of the hierarchy
World_fragment_add_atom(W, fh, a) ==
    LET r == Fragment_add_atom(W.frags[fh], W.atoms, a, fh)
    IN  [W |-> [W EXCEPT !.frags = [@ EXCEPT ![fh] = r.frag], !.atoms = r.atoms],
         err |-> r.err]

\* Segment.add_atom up to its last line, were it to take the Fragment it
\* finds whatever its res_name
Segment_fragment_for_any_res_name(W, c, a, delay_sort) ==
    LET atom == W.atoms[a]
    IN  IF ~has_key(W.chains[c].fragment_dict, atom.fragment_id)
        THEN LET fh == Len(W.frags) + 1
                 W1 == [W EXCEPT !.frags = Append(@, Fragment(atom.model_id, atom.chain_id,
                                                             atom.fragment_id, atom.res_name))]
                 r  == Chain_add_fragment(W1, c, fh, delay_sort)
             IN  [W |-> r.W, err |-> r.err, fragment |-> fh]
        ELSE [W |-> W, fragment |-> W.chains[c].fragment_dict[atom.fragment_id], err |-> ""]

\* Segment.add_atom up to its last line: the Fragment of the atom's
\* fragment_id, made and added when the chain has none
Segment_fragment_for(W, c, a, delay_sort) ==
    LET atom == W.atoms[a]
    IN  IF ~has_key(W.chains[c].fragment_dict, atom.fragment_id)
        THEN LET fh == Len(W.frags) + 1
                 W1 == [W EXCEPT !.frags = Append(@, Fragment(atom.model_id, atom.chain_id,
                                                             atom.fragment_id, atom.res_name))]
                 r  == Chain_add_fragment(W1, c, fh, delay_sort)
             IN  [W |-> r.W, err |-> r.err, fragment |-> fh]
        ELSE LET fh == W.chains[c].fragment_dict[atom.fragment_id]
             IN  [W |-> W, fragment |-> fh,
                  err |-> IF W.frags[fh].res_name # atom.res_name
                          THEN "FragmentOverwrite" ELSE ""]

\* Segment.add_atom
Segment_add_atom(W, c, a, delay_sort) ==
    LET r == Segment_fragment_for(W, c, a, delay_sort)
    IN  IF r.err # "" THEN Raise(r.W, r.err)
        ELSE World_fragment_add_atom(r.W, r.fragment, a)

\* Model.add_atom up to its last line: the Chain of the atom's chain_id,
\* made and added when the model has none
Model_chain_for(W, m, a, delay_sort) ==
    LET atom == W.atoms[a]
    IN  IF has_key(W.models[m].chain_dict, atom.chain_id)
        THEN [W |-> W, err |-> "", chain |-> W.models[m].chain_dict[atom.chain_id]]
        ELSE LET c  == Len(W.chains) + 1
                 W1 == [W EXCEPT !.chains = Append(@, Chain(atom.model_id, atom.chain_id))]
                 r  == Model_add_chain(W1, m, c, delay_sort)
             IN  [W |-> r.W, err |-> r.err, chain |-> c]

\* Model.add_atom
Model_add_atom(W, m, a, delay_sort) ==
    LET r == Model_chain_for(W, m, a, delay_sort)
    IN  IF r.err # "" THEN Raise(r.W, r.err)
        ELSE Segment_add_atom(r.W, r.chain, a, delay_sort)

\* Structure.add_atom up to its "optimized add_atom()": the Model of the
\* atom's model_id, made and added when the structure has none
Structure_model_for(W, a, delay_sort) ==
    LET atom == W.atoms[a]
    IN  IF has_key(W.structure.model_dict, atom.model_id)
        THEN [W |-> W, err |-> "", model |-> W.structure.model_dict[atom.model_id]]
        ELSE LET m == Len(W.models) + 1
                 r == Structure_add_model([W EXCEPT !.models = Append(@, Model(atom.model_id))],
                                          m, delay_sort)
             IN  [W |-> r.W, err |-> r.err, model |-> m]

\* Structure.add_atom.  Its three branches are the three cases of
\* Model.add_atom written out: with chain and fragment at hand the res_name
\* test and fragment.add_atom are the else branch of Segment.add_atom, with
\* the chain at hand chain.add_atom is what Model.add_atom calls for a chain
\* it finds, and otherwise it calls model.add_atom.
Structure_add_atom(W, a, delay_sort) ==
    LET r == Structure_model_for(W, a, delay_sort)
    IN  IF r.err # "" THEN Raise(r.W, r.err)
        ELSE Model_add_atom(r.W, r.model, a, delay_sort)

\* Structure.iter_all_fragments: the fragments of all chains of all models
RECURSIVE all_chains(_, _)
all_chains(W, i) ==
    IF i > Len(W.structure.model_list) THEN <<>>
    ELSE W.models[W.structure.model_list[i]].chain_list \o all_chains(W, i + 1)

RECURSIVE fragments_of(_, _, _)
fragments_of(W, cl, i) ==
    IF i > Len(cl) THEN <<>>
    ELSE W.chains[cl[i]].fragment_list \o fragments_of(W, cl, i + 1)

Structure_iter_all_fragments(W) == fragments_of(W, all_chains(W, 1), 1)

\* the fragments Structure.set_default_alt_loc tells the new label
relabelled_fragments(W) == Range(Structure_iter_all_fragments(W))

\* Structure.set_default_alt_loc
Structure_set_default_alt_loc(W, alt_loc) ==
    [W EXCEPT !.structure.default_alt_loc = alt_loc,
              !.frags = [fh \in DOMAIN W.frags |->
                            IF fh \in relabelled_fragments(W)
                            THEN Fragment_set_default_alt_loc(W.frags[fh], W.atoms, alt_loc)
                            ELSE W.frags[fh]]]

-----------------------------------------------------------------------------
(* The calls made on the hierarchy *)

AtomNames == {"N", "CA"}
AltLocs == {"", "A", "B"}
DefaultAltLocs == {"A", "B", "C"}

\* what the last call was: its name, the atom and the label it was handed,
\* the Model or Fragment it was made on, and the error it raised
Call(op, atom, alt_loc, obj, err) ==
    [op |-> op, atom |-> atom, alt_loc |-> alt_loc, obj |-> obj, err |-> err]

NoCall == Call("", None, "", None, "")

CifIdle ==
    /\ fil = <<>>
    /\ cife = <<>>
    /\ parser = <<>>
    /\ cif_file = <<>>

LoadIdle == twin = <<>> /\ annots = <<>>

GeomIdle ==
    /\ xyzdict = <<>>
    /\ yielded = <<>>
    /\ points = <<>>

-----------------------------------------------------------------------------
(* One Fragment on its own: add_atom, remove_atom, set_default_alt_loc *)

TheFragment == 1

InitFrag ==
    /\ structure = Structure0
    /\ models = <<>>
    /\ chains = <<>>
    /\ frags = <<Fragment(1, "A", <<"5">>, "GLY")>>
    /\ atoms = <<>>
    /\ last = NoCall
    /\ CifIdle
    /\ LoadIdle
    /\ GeomIdle

\* fragment.add_atom(a) for an atom a that is in no fragment
FragDoAdd(atms, a) ==
    LET r == Fragment_add_atom(frags[TheFragment], atms, a, TheFragment)
    IN  /\ frags' = [frags EXCEPT ![TheFragment] = r.frag]
        /\ atoms' = r.atoms
        /\ last' = Call("add_atom", a, atms[a].alt_loc, TheFragment, r.err)

\* a new Atom is made and added
FragAddAtom ==
    \E name \in AtomNames, alt_loc \in AltLocs :
        /\ Len(atoms) < MaxFragAtoms
        /\ FragDoAdd(Append(atoms, Atom(name, alt_loc, "GLY", <<"5">>, "A", 1)),
                     Len(atoms) + 1)
        /\ UNCHANGED <<structure, models, chains, cif_vars, load_vars, geom_vars>>

\* an Atom that was removed (or refused) is added again
FragReAddAtom ==
    \E a \in 1..Len(atoms) :
        /\ atoms[a].fragment = None
        /\ FragDoAdd(atoms, a)
        /\ UNCHANGED <<structure, models, chains, cif_vars, load_vars, geom_vars>>

FragRemoveAtom ==
    \E a \in 1..Len(atoms) :
        /\ atoms[a].fragment = TheFragment
        /\ LET r == Fragment_remove_atom(frags[TheFragment], atoms, a)
           IN  /\ frags' = [frags EXCEPT ![TheFragment] = r.frag]
               /\ atoms' = r.atoms
               /\ last' = Call("remove_atom", a, atoms[a].alt_loc, TheFragment, "")
        /\ UNCHANGED <<structure, models, chains, cif_vars, load_vars, geom_vars>>

FragSetDefaultAltLoc ==
    \E alt_loc \in DefaultAltLocs :
        /\ frags' = [frags EXCEPT ![TheFragment] =
                        Fragment_set_default_alt_loc(@, atoms, alt_loc)]
        /\ last' = Call("set_default_alt_loc", None, alt_loc, TheFragment, "")
        /\ UNCHANGED <<structure, models, chains, atoms, cif_vars, load_vars, geom_vars>>

NextFrag ==
    \/ FragAddAtom
    \/ FragReAddAtom
    \/ FragRemoveAtom
    \/ FragSetDefaultAltLoc

SpecFrag == InitFrag /\ [][NextFrag]_vars

-----------------------------------------------------------------------------
(* The Structure: add_atom, add_model, remove_model, set_default_alt_loc *)

ModelIds == {1, 2}
ChainIds == {"A", "B"}
FragmentIds == {<<"5">>, <<"0", "5">>, <<"5", "A">>}
ResNames == {"GLY", "ALA"}

InitStruct ==
    /\ structure = Structure0
    /\ models = <<>>
    /\ chains = <<>>
    /\ frags = <<>>
    /\ atoms = <<>>
    /\ last = NoCall
    /\ CifIdle
    /\ LoadIdle
    /\ GeomIdle

SetWorld(W) ==
    /\ structure' = W.structure
    /\ models' = W.models
    /\ chains' = W.chains
    /\ frags' = W.frags
    /\ atoms' = W.atoms

\* structure.add_atom(Atom(...), delay_sort) with a new Atom
DoStructAddAtom(atom, delay_sort) ==
    LET a == Len(atoms) + 1
        r == Structure_add_atom([World EXCEPT !.atoms = Append(@, atom)], a, delay_sort)
    IN  /\ SetWorld(r.W)
        /\ last' = Call("add_atom", a, atom.alt_loc, None, r.err)

StructAddAtom ==
    \E model_id \in ModelIds, chain_id \in ChainIds, fragment_id \in FragmentIds,
       res_name \in ResNames, alt_loc \in AltLocs, delay_sort \in BOOLEAN :
        /\ Len(atoms) < MaxAtoms
        /\ DoStructAddAtom(Atom("CA", alt_loc, res_name, fragment_id, chain_id, model_id),
                           delay_sort)
        /\ UNCHANGED <<cif_vars, load_vars, geom_vars>>

StructSetDefaultAltLoc ==
    \E alt_loc \in DefaultAltLocs :
        /\ SetWorld(Structure_set_default_alt_loc(World, alt_loc))
        /\ last' = Call("set_default_alt_loc", None, alt_loc, None, "")
        /\ UNCHANGED <<cif_vars, load_vars, geom_vars>>

NextStruct ==
    \/ StructAddAtom
    \/ StructSetDefaultAltLoc

SpecStruct == InitStruct /\ [][NextStruct]_vars

-----------------------------------------------------------------------------
(* The Models of a Structure: add_model, add_atom, remove_model *)

MaxModels == 3
MaxModelAtoms == 2

ManyModelIds == {1, 2, 3}

\* structure.add_model(Model(model_id), delay_sort) with a new Model
ModelsAddModel ==
    \E model_id \in ManyModelIds, delay_sort \in BOOLEAN :
        /\ Len(models) < MaxModels
        /\ LET m == Len(models) + 1
               r == Structure_add_model([World EXCEPT !.models = Append(@, Model(model_id))],
                                        m, delay_sort)
           IN  /\ SetWorld(r.W)
               /\ last' = Call("add_model", None, "", m, r.err)
        /\ UNCHANGED <<cif_vars, load_vars, geom_vars>>

\* a Model that was removed is added again
ModelsReAddModel ==
    \E m \in 1..Len(models), delay_sort \in BOOLEAN :
        /\ models[m].structure = None
        /\ LET r == Structure_add_model(World, m, delay_sort)
           IN  /\ SetWorld(r.W)
               /\ last' = Call("add_model", None, "", m, r.err)
        /\ UNCHANGED <<cif_vars, load_vars, geom_vars>>

ModelsAddAtom ==
    \E model_id \in ManyModelIds, delay_sort \in BOOLEAN :
        /\ Len(atoms) < MaxModelAtoms
        /\ Len(models) < MaxModels
        /\ DoStructAddAtom(Atom("CA", "", "GLY", <<"5">>, "A", model_id), delay_sort)
        /\ UNCHANGED <<cif_vars, load_vars, geom_vars>>

ModelsRemoveModel ==
    \E m \in 1..Len(models) :
        /\ m \in Range(structure.model_list)
        /\ LET r == Structure_remove_model(World, m)
           IN  /\ SetWorld(r.W)
               /\ last' = Call("remove_model", None, "", m, r.err)
        /\ UNCHANGED <<cif_vars, load_vars, geom_vars>>

NextModels ==
    \/ ModelsAddModel
    \/ ModelsReAddModel
    \/ ModelsAddAtom
    \/ ModelsRemoveModel

SpecModels == InitStruct /\ [][NextModels]_vars

-----------------------------------------------------------------------------
(* Claims about one Fragment *)

\* the visible atoms as the claim describes them: along the backing sequence,
\* every plain atom, and of every Altloc the member for the default label
RECURSIVE VisibleFrom(_, _, _)
VisibleFrom(f, alt_loc, i) ==
    IF i > Len(f.atom_order_list) THEN <<>>
    ELSE LET atm == f.atom_order_list[i]
             here == IF ~atm.altloc THEN <<atm.atom>>
                     ELSE IF alt_loc \in DOMAIN f.alt_loc_dict[atm.name]
                          THEN <<f.alt_loc_dict[atm.name][alt_loc]>>
                          ELSE <<>>
         IN  here \o VisibleFrom(f, alt_loc, i + 1)

VisibleProjection(f, alt_loc) == VisibleFrom(f, alt_loc, 1)

VisibleViewIsProjection(f, atms, alt_loc) ==
    LET vis == VisibleProjection(f, alt_loc)
    IN  /\ f.atom_list = vis
        /\ DOMAIN f.atom_dict = {atms[vis[j]].name : j \in 1..Len(vis)}
        /\ \A j \in 1..Len(vis) : f.atom_dict[atms[vis[j]].name] = vis[j]
        /\ \A j, k \in 1..Len(vis) : atms[vis[j]].name = atms[vis[k]].name => j = k

\* C2: after any sequence of add_atom, remove_atom and set_default_alt_loc the
\* visible atom list is, in backing-sequence order, every plain atom plus each
\* Altloc's member for the default label (nothing when it has none), and the
\* visible name map holds exactly those atoms by name, no name twice.
C2_VisibleView ==
    VisibleViewIsProjection(frags[TheFragment], atoms, frags[TheFragment].default_alt_loc)

\* C2 witness: N is visible and the CA group, which has no member for the
\* default label, is hidden after a switch of the default label
C2_Witness ==
    LET f == frags[TheFragment]
    IN  /\ last.op = "set_default_alt_loc"
        /\ Len(f.atom_order_list) = 2
        /\ Len(f.atom_list) = 1
        /\ f.atom_order_list[1].altloc
        /\ ~f.atom_order_list[2].altloc
        /\ DOMAIN f.alt_loc_dict[f.atom_order_list[1].name] = {"A", "B"}

\* the atoms of the fragment that carry the name
Named(atms, name) ==
    {x \in 1..Len(atms) : atms[x].fragment = TheFragment /\ atms[x].name = name}

\* C3: adding an atom with an explicit label to a fragment in which another
\* atom of the same name already uses that label raises AtomOverwrite and
\* does not insert the atom.
C3_LabelCollisionRaises ==
    [][(/\ last'.op = "add_atom"
        /\ last'.alt_loc # ""
        /\ \E x \in Named(atoms, atoms'[last'.atom].name) :
               atoms[x].alt_loc = last'.alt_loc)
       => (/\ last'.err = "AtomOverwrite"
           /\ atoms'[last'.atom].fragment = None
           /\ frags' = frags)]_vars

FirstFree(used) ==
    uppercase[CHOOSE j \in 1..Len(uppercase) :
                 /\ uppercase[j] \notin used
                 /\ \A k \in 1..(j - 1) : uppercase[k] \in used]

-----------------------------------------------------------------------------
(* Claims about the Structure *)

\* C7: after any sequence of Structure.add_atom and set_default_alt_loc calls
\* every Fragment of every Model, those made after the last change of the
\* label included, shows the visible projection for the Structure's current
\* default alt-loc label.
C7_FragmentsShowStructureDefault ==
    \A fh \in Range(Structure_iter_all_fragments(World)) :
        VisibleViewIsProjection(frags[fh], atoms, structure.default_alt_loc)

\* C10: a Chain never holds two Fragments whose ids are equal as
\* (sequence-number, insertion-code) tuples, whatever their id strings.
C10_FragmentIdsUniqueAsTuples ==
    \A c \in 1..Len(chains) :
        \A j, k \in 1..Len(chains[c].fragment_list) :
            LET f1 == frags[chains[c].fragment_list[j]]
                f2 == frags[chains[c].fragment_list[k]]
            IN  fragment_id_split(f1.fragment_id) = fragment_id_split(f2.fragment_id)
                    => j = k

-----------------------------------------------------------------------------
(* Claims about the Models of a Structure *)

Owned == Range(structure.model_list)

LowestOwned(m) ==
    /\ m \in Owned
    /\ \A x \in Owned : models[m].model_id <= models[x].model_id

C9_RemoveModel ==
    [][(last'.op = "remove_model" /\ last'.err = "")
       => LET m == last'.obj
          IN  /\ m \notin Range(structure'.model_list)
              /\ \A k \in DOMAIN structure'.model_dict : structure'.model_dict[k] # m
              /\ models'[m].structure = None
              /\ IF structure.default_model = m
                 THEN IF structure'.model_list = <<>>
                      THEN structure'.default_model = None
                      ELSE /\ structure'.default_model \in Range(structure'.model_list)
                           /\ \A x \in Range(structure'.model_list) :
                                 models'[structure'.default_model].model_id
                                     <= models'[x].model_id
                 ELSE structure'.default_model = structure.default_model]_vars

-----------------------------------------------------------------------------
(* mmCIF text: a line is a sequence of characters, a file a sequence of lines *)

QUOTES == {"'", "\""}

MAX_LINE == 80

\* string.whitespace (the vertical tab has no TLA+ spelling and is left out)
whitespace == {" ", "\t", "\n", "\r", "\f"}

\* s[a:b] for 0 <= a
Slice(s, a, b) == SubSeq(s, a + 1, IF b > Len(s) THEN Len(s) ELSE b)

\* s[:len(p)] == p
StartsWith(s, p) == Len(s) >= Len(p) /\ SubSeq(s, 1, Len(p)) = p

data_ == <<"d", "a", "t", "a", "_">>
loop_ == <<"l", "o", "o", "p", "_">>
save_ == <<"s", "a", "v", "e", "_">>

RECURSIVE rstrip(_)
rstrip(s) ==
    IF s # <<>> /\ s[Len(s)] \in whitespace THEN rstrip(SubSeq(s, 1, Len(s) - 1)) ELSE s

\* str.split("."): the pieces between the dots, cur being the piece in progress
RECURSIVE split_dot(_, _, _)
split_dot(s, i, cur) ==
    IF i > Len(s) THEN <<cur>>
    ELSE IF s[i] = "." THEN <<cur>> \o split_dot(s, i + 1, <<>>)
    ELSE split_dot(s, i + 1, Append(cur, s[i]))

\* an element of the tokenizer: the text s and its type t, "token" or "string"
Element(s, t) == [s |-> s, t |-> t]

\* F applied to the value of x: x is evaluated once, as an assignment does
Let(F(_), x) == CHOOSE v \in {F(y) : y \in {x}} : TRUE

-----------------------------------------------------------------------------
(* mmCIFElementFile *)

\* the body of split's loop for the 0-based index i: the new j, state and list
split_char(line, i, j, state, list) ==
    LET c == line[i + 1]
    IN  IF state = "whitespace"
        THEN IF c \notin whitespace
             THEN [j |-> i, state |-> IF c \in QUOTES THEN "quote" ELSE "element",
                   list |-> list]
             ELSE [j |-> j, state |-> state, list |-> list]
        ELSE IF state = "element"
        THEN IF c \in whitespace
             THEN [j |-> j, state |-> "whitespace",
                   list |-> Append(list, Element(Slice(line, j, i), "token"))]
             ELSE [j |-> j, state |-> state, list |-> list]
        ELSE IF c \in QUOTES /\ (i + 1 >= Len(line) \/ line[i + 2] \in whitespace)
             THEN [j |-> j, state |-> "whitespace",
                   list |-> Append(list, Element(Slice(line, j + 1, i), "string"))]
             ELSE [j |-> j, state |-> state, list |-> list]

\* split's loop from the index i on, and what follows the loop
RECURSIVE split_from(_, _, _, _, _)
split_from(line, i, j, state, list) ==
    IF i >= Len(line)
    THEN IF state = "element"
         THEN Append(list, Element(Slice(line, j, Len(line)), "token"))
         ELSE IF state = "quote"
         THEN Append(list, Element(Slice(line, j + 1, Len(line) - 1), "string"))
         ELSE list
    ELSE Let(LAMBDA n : split_from(line, i + 1, n.j, n.state, n.list),
             split_char(line, i, j, state, list))

split(line) == split_from(line, 0, 0, "whitespace", <<>>)

\* read_elements, state "read data", for a line that is neither a comment
\* nor the start of a ; string: the loop breaks when split found elements
read_elements_split(elements, state, temp) ==
    [break |-> elements # <<>>, elements |-> elements, state |-> state, temp |-> temp]

\* read_elements, were it to skip the lines that begin with "#" in a ; string too
read_elements_line_comments_first(line, state, temp) ==
    IF line[1] = "#"
    THEN [break |-> FALSE, elements |-> <<>>, state |-> state, temp |-> temp]
    ELSE IF state = "read data"
    THEN IF line[1] = ";"
         THEN [break |-> FALSE, elements |-> <<>>, state |-> "read ;string",
               temp |-> Tail(line)]
         ELSE Let(LAMBDA elements : read_elements_split(elements, state, temp),
                  split(line))
    ELSE IF line[1] = ";"
         THEN [break |-> TRUE, elements |-> <<Element(rstrip(temp), "string")>>,
               state |-> "read data", temp |-> temp]
         ELSE [break |-> FALSE, elements |-> <<>>, state |-> state,
               temp |-> temp \o line]

\* one pass of read_elements' loop over the line just read: whether the loop
\* breaks, the elements it adds, and the new state and temp
read_elements_line(line, state, temp) ==
    IF state = "read data"
    THEN IF line[1] = "#"
         THEN [break |-> FALSE, elements |-> <<>>, state |-> state, temp |-> temp]
         ELSE IF line[1] = ";"
         THEN [break |-> FALSE, elements |-> <<>>, state |-> "read ;string",
               temp |-> Tail(line)]
         ELSE Let(LAMBDA elements : read_elements_split(elements, state, temp),
                  split(line))
    ELSE IF line[1] = ";"
         THEN [break |-> TRUE, elements |-> <<Element(rstrip(temp), "string")>>,
               state |-> "read data", temp |-> temp]
         ELSE [break |-> FALSE, elements |-> <<>>, state |-> state,
               temp |-> temp \o line]

\* read_elements from file position pos on, n lines having been read by this
\* call: the elements found (eof when readline returned ""), the new file
\* position and the number of readline calls made
RECURSIVE read_elements_from(_, _, _, _, _), read_elements_next(_, _, _, _)
read_elements_from(lines, pos, n, state, temp) ==
    IF pos >= Len(lines)
    THEN [eof |-> TRUE, pos |-> pos, read |-> n + 1, elements |-> <<>>]
    ELSE Let(LAMBDA r : read_elements_next(lines, pos, n, r),
             read_elements_line(lines[pos + 1], state, temp))

\* the end of a pass r of read_elements' loop: break, or read the next line
read_elements_next(lines, pos, n, r) ==
    IF r.break
    THEN [eof |-> FALSE, pos |-> pos + 1, read |-> n + 1, elements |-> r.elements]
    ELSE read_elements_from(lines, pos + 1, n + 1, r.state, r.temp)

\* the state the tokenizer works on: the file and the mmCIFElementFile
mmCIFElementFile == [line_number |-> 0, elements |-> <<>>]

File(lines) == [lines |-> lines, pos |-> 0]

\* read_elements, were it to count one line for each call
read_elements_done_one_line(f, ce, r) ==
    [eof  |-> r.eof,
     fil  |-> [f EXCEPT !.pos = r.pos],
     cife |-> [line_number |-> ce.line_number + 1, elements |-> r.elements]]

\* the file and the tokenizer after a call r of read_elements
read_elements_done(f, ce, r) ==
    [eof  |-> r.eof,
     fil  |-> [f EXCEPT !.pos = r.pos],
     cife |-> [line_number |-> ce.line_number + r.read, elements |-> r.elements]]

\* "if not self.elements: self.read_elements()" of getNextElement and peekNextElement
read_elements(f, ce) ==
    IF ce.elements # <<>> THEN [eof |-> FALSE, fil |-> f, cife |-> ce]
    ELSE Let(LAMBDA r : read_elements_done(f, ce, r),
             read_elements_from(f.lines, f.pos, 0, "read data", <<>>))

\* "return self.elements[0]" after the call r of read_elements
elements_head(r) ==
    [eof |-> r.eof, fil |-> r.fil, cife |-> r.cife,
     e |-> IF r.eof THEN Element(<<>>, "") ELSE Head(r.cife.elements)]

peekNextElement(f, ce) == Let(elements_head, read_elements(f, ce))

\* "return self.elements.pop(0)": r is the element peeked at
elements_pop(r) == IF r.eof THEN r ELSE [r EXCEPT !.cife.elements = Tail(@)]

getNextElement(f, ce) == Let(elements_pop, peekNextElement(f, ce))

replaceElement(ce, element) == [ce EXCEPT !.elements = <<element>> \o @]

-----------------------------------------------------------------------------
(* mmCIFData, mmCIFTable, mmCIFRow *)

\* None where a table name is expected: no sequence of characters equals it
NoneName == <<"None">>

\* "if name:" for a name that is None or a string
truthy(name) == name # NoneName /\ name # <<>>

mmCIFRow == EmptyDict

mmCIFTable(name, columns) == [name |-> name, columns |-> columns, rows |-> <<>>]

mmCIFData(name) == [name |-> name, tables |-> <<>>]

\* addTable, were setattr to take any name
mmCIFData_addTable_any_name(data, table) ==
    [data |-> [data EXCEPT !.tables = Append(@, table)], err |-> ""]

\* addTable: the table is appended and then made an attribute of the data
\* section; setattr raises TypeError for a name that is not a string
mmCIFData_addTable(data, table) ==
    [data |-> [data EXCEPT !.tables = Append(@, table)],
     err  |-> IF table.name = NoneName THEN "TypeError" ELSE ""]

\* getTable: the position of the first table of that name, None when there is none
mmCIFData_getTable(data, name) ==
    IF \E j \in 1..Len(data.tables) : data.tables[j].name = name
    THEN CHOOSE j \in 1..Len(data.tables) :
            /\ data.tables[j].name = name
            /\ \A k \in 1..(j - 1) : data.tables[k].name # name
    ELSE None

-----------------------------------------------------------------------------
(* mmCIFFileParser: one step is one pass of the loop the parser is in *)

MaxLoopRows == 6

NoError == [kind |-> "", line |-> 0, msg |-> ""]

\* parseFile's first lines: done = 0, a new mmCIFElementFile, an empty data_list
mmCIFFileParser ==
    [pc |-> "parseFile", done |-> FALSE, data_list |-> <<>>, err |-> NoError,
     table_name |-> NoneName, cname_list |-> <<>>]

\* raise self.error, "[line %d] %s" % (self.cife.line_number, err)
syntax_error(S, msg) ==
    [S EXCEPT !.parser.pc = "raised",
              !.parser.err = [kind |-> "mmCIF Syntax Error",
                              line |-> S.cife.line_number, msg |-> msg]]

\* an exception of Python's own that nothing in the parser catches
raise(S, kind) ==
    [S EXCEPT !.parser.pc = "raised",
              !.parser.err = [kind |-> kind, line |-> 0, msg |-> ""]]

\* the parser's state after a call g of the tokenizer
WithElement(S, g) ==
    [eof |-> g.eof, e |-> g.e, S |-> [S EXCEPT !.fil = g.fil, !.cife = g.cife]]

\* self.cife.getNextElement() on the parser's state
GetNext(S) == Let(LAMBDA g : WithElement(S, g), getNextElement(S.fil, S.cife))

\* self.cife.peekNextElement() on the parser's state
PeekNext(S) == Let(LAMBDA p : WithElement(S, p), peekNextElement(S.fil, S.cife))

\* s[1:].split(".")
tag_split(s) == split_dot(Tail(s), 1, <<>>)

\* one pass of parseFile's loop, g being the element it got
parseFile_element(g) ==
    IF g.eof
    THEN [g.S EXCEPT !.parser.done = TRUE, !.parser.pc = "returned"]
    ELSE IF StartsWith(g.e.s, data_)
    THEN [g.S EXCEPT !.parser.data_list = Append(@, mmCIFData(Slice(g.e.s, 5, Len(g.e.s)))),
                     !.parser.pc = "read_data"]
    ELSE syntax_error(g.S, "unexpected element")

parseFile_step(S) == Let(parseFile_element, GetNext(S))

\* the end of read_single: g is the element got for the value of column
\* cname of table ti of the data section d, which is data
read_single_value(g, d, data, ti, cname) ==
    IF g.eof THEN syntax_error(g.S, "premature end of file")
    ELSE IF g.e.t = "token" /\ g.e.s[1] = "_"
    THEN syntax_error(g.S, "expected data got section")
    ELSE [g.S EXCEPT !.parser.data_list[d] =
             [data EXCEPT !.tables[ti].rows[1] = DictSet(@, cname, g.e.s)]]

\* read_single's table: the one of that name, or a new one with one row
read_single_table(data, tname) ==
    LET found == mmCIFData_getTable(data, tname)
    IN  IF found = None \/ Len(data.tables[found].rows) = 0
        THEN LET a == mmCIFData_addTable(data, mmCIFTable(tname, <<>>)).data
             IN  [isnew |-> TRUE, ti |-> Len(a.tables),
                  data |-> [a EXCEPT !.tables[Len(a.tables)].rows = <<mmCIFRow>>]]
        ELSE [isnew |-> FALSE, ti |-> found, data |-> data]

\* read_single from the table lookup on: parts are the two pieces of the tag
\* and t is the table
read_single_column(S, parts, d, t) ==
    IF ~t.isnew /\ parts[2] \in Range(t.data.tables[t.ti].columns)
    THEN syntax_error(S, "redefined single column")
    ELSE Let(LAMBDA g : read_single_value(g, d,
                 [t.data EXCEPT !.tables[t.ti].columns = Append(@, parts[2])],
                 t.ti, parts[2]),
             GetNext(S))

\* read_single after the tag s was split into parts
read_single_parts(S, parts) ==
    IF Len(parts) # 2 THEN raise(S, "ValueError")
    ELSE Let(LAMBDA t : read_single_column(S, parts, Len(S.parser.data_list), t),
             read_single_table(S.parser.data_list[Len(S.parser.data_list)], parts[1]))

read_single(S, s) == Let(LAMBDA parts : read_single_parts(S, parts), tag_split(s))

\* one pass of read_data's loop, g being the element it got
read_data_element(g) ==
    IF g.eof
    THEN [g.S EXCEPT !.parser.done = TRUE, !.parser.pc = "returned"]
    ELSE IF g.e.s = <<>> THEN raise(g.S, "IndexError")
    ELSE IF g.e.s[1] = "_" THEN read_single(g.S, g.e.s)
    ELSE IF StartsWith(g.e.s, loop_)
    THEN [g.S EXCEPT !.parser.pc = "read_loop_columns",
                     !.parser.table_name = NoneName,
                     !.parser.cname_list = <<>>]
    ELSE IF StartsWith(g.e.s, data_)
    THEN [g.S EXCEPT !.cife = replaceElement(@, g.e), !.parser.pc = "parseFile"]
    ELSE syntax_error(g.S, "bad element")

read_data_step(S) == Let(read_data_element, GetNext(S))

\* read_loop between its loops: the table is made and added, r being what
\* addTable did to data section d
read_loop_table(S, d, r) ==
    IF r.err # "" THEN raise([S EXCEPT !.parser.data_list[d] = r.data], r.err)
    ELSE [S EXCEPT !.parser.data_list[d] = r.data, !.parser.pc = "read_loop_rows"]

\* a column declaration of read_loop, parts being the pieces of its tag
read_loop_column(S, parts) ==
    IF Len(parts) # 2 THEN raise(S, "ValueError")
    ELSE IF S.parser.table_name # parts[1] /\ truthy(S.parser.table_name)
    THEN syntax_error(S, "section in loop do not match")
    ELSE [S EXCEPT !.parser.table_name = parts[1],
                   !.parser.cname_list = Append(@, parts[2])]

\* one pass of read_loop's first loop, g being the element it got
read_loop_columns_element(g) ==
    IF g.eof THEN syntax_error(g.S, "premature end of file")
    ELSE IF g.e.t = "string" \/ g.e.s[1] # "_"
    THEN read_loop_table([g.S EXCEPT !.cife = replaceElement(@, g.e)],
             Len(g.S.parser.data_list),
             mmCIFData_addTable(g.S.parser.data_list[Len(g.S.parser.data_list)],
                 mmCIFTable(g.S.parser.table_name, g.S.parser.cname_list)))
    ELSE Let(LAMBDA parts : read_loop_column(g.S, parts), tag_split(g.e.s))

read_loop_columns_step(S) == Let(read_loop_columns_element, GetNext(S))

\* "for cname in table.getColumnList()" of read_loop from column i on, and
\* what it does with the element g it got for column i
RECURSIVE read_loop_row(_, _, _, _), read_loop_value(_, _, _, _)
read_loop_row(S, columns, i, row) ==
    IF i > Len(columns) THEN [ok |-> TRUE, S |-> S, row |-> row]
    ELSE Let(LAMBDA g : read_loop_value(g, columns, i, row), GetNext(S))

read_loop_value(g, columns, i, row) ==
    IF g.eof
    THEN [ok |-> FALSE, S |-> syntax_error(g.S, "loop values incomplete"), row |-> row]
    ELSE IF g.e.t = "token" /\ g.e.s[1] = "_"
    THEN [ok |-> FALSE, S |-> syntax_error(g.S, "expected data got section"), row |-> row]
    ELSE read_loop_row(g.S, columns, i + 1, DictSet(row, columns[i], g.e.s))

\* read_loop_peek ending the rows only at a "_" token
read_loop_peek_tags_only(p) ==
    IF p.eof
    THEN [p.S EXCEPT !.parser.done = TRUE, !.parser.pc = "returned"]
    ELSE IF p.e.t = "token" /\ p.e.s[1] = "_"
    THEN [p.S EXCEPT !.parser.pc = "read_data"]
    ELSE p.S

\* the end of a pass of read_loop's second loop, p being the element peeked at
read_loop_peek(p) ==
    IF p.eof
    THEN [p.S EXCEPT !.parser.done = TRUE, !.parser.pc = "returned"]
    ELSE IF p.e.t = "token" /\ (\/ p.e.s[1] = "_"
                                \/ StartsWith(p.e.s, data_)
                                \/ StartsWith(p.e.s, loop_)
                                \/ StartsWith(p.e.s, save_))
    THEN [p.S EXCEPT !.parser.pc = "read_data"]
    ELSE p.S

\* a pass of read_loop's second loop once the row r of table ti of data
\* section d was read
read_loop_row_read(r, d, ti) ==
    IF ~r.ok THEN r.S
    ELSE Let(read_loop_peek, PeekNext(
             [r.S EXCEPT !.parser.data_list[d].tables[ti].rows = Append(@, r.row)]))

\* one pass of read_loop's second loop, a row of values for table ti of data
\* section d
read_loop_rows_of(S, d, ti) ==
    Let(LAMBDA r : read_loop_row_read(r, d, ti),
        read_loop_row(S, S.parser.data_list[d].tables[ti].columns, 1, mmCIFRow))

read_loop_rows_step(S) ==
    read_loop_rows_of(S, Len(S.parser.data_list),
                      Len(S.parser.data_list[Len(S.parser.data_list)].tables))

-----------------------------------------------------------------------------
(* mmCIFFileWriter: what writeFile writes, as one sequence of characters *)

SPACING == 2

Spaces(n) == [j \in 1..n |-> " "]

\* str.ljust(n)
ljust(str, n) == IF Len(str) < n THEN str \o Spaces(n - Len(str)) ELSE str

max(a, b) == IF a > b THEN a ELSE b

\* fix_value, were it to leave values with spaces as they are
fix_value_unquoted(val) ==
    IF Len(val) = 0 THEN <<"?">> ELSE val

fix_value(val) ==
    IF Len(val) = 0 THEN <<"?">>
    ELSE IF \E j \in 1..Len(val) : val[j] = " " THEN <<"'">> \o val \o <<"'">>
    ELSE val

\* fix_big_string's chunks from the character i on, run characters of the
\* line that is being cut having been kept
RECURSIVE fix_big_from(_, _, _)
fix_big_from(val, i, run) ==
    IF i > Len(val) THEN <<>>
    ELSE IF val[i] = "\n" THEN <<"\n">> \o fix_big_from(val, i + 1, 0)
    ELSE IF run = MAX_LINE - 1 THEN <<"\n", val[i]>> \o fix_big_from(val, i + 1, 1)
    ELSE <<val[i]>> \o fix_big_from(val, i + 1, run + 1)

fix_big_string(val) ==
    IF Len(val) > MAX_LINE - 1 THEN fix_big_from(val, 1, 0) ELSE val

\* "try: val = row[col] / except KeyError: val = '?'"
row_value(row, col) == IF has_key(row, col) THEN row[col] ELSE <<"?">>

\* "_%s.%s" % (cif_table.name, col)
tag(cif_table, col) == <<"_">> \o cif_table.name \o <<".">> \o col

\* write_one_row_table's first loop: the longest tag from column i on
RECURSIVE kmax_from(_, _)
kmax_from(cif_table, i) ==
    IF i > Len(cif_table.columns) THEN 0
    ELSE max(Len(tag(cif_table, cif_table.columns[i])), kmax_from(cif_table, i + 1))

\* what write_one_row_table writes after the tag of a column
one_row_value(val, fval, kmax) ==
    IF Len(fval) > MAX_LINE - 1
    THEN <<"\n", ";">> \o fix_big_string(val) \o <<"\n", ";", "\n">>
    ELSE IF Len(fval) > MAX_LINE - kmax - 1
    THEN <<"\n">> \o fval \o <<"\n">>
    ELSE fval \o <<"\n">>

\* write_one_row_table's second loop from column i on
RECURSIVE one_row_from(_, _, _)
one_row_from(cif_table, kmax, i) ==
    IF i > Len(cif_table.columns) THEN <<>>
    ELSE ljust(tag(cif_table, cif_table.columns[i]), kmax)
         \o Let(LAMBDA val : one_row_value(val, fix_value(val), kmax),
                row_value(cif_table.rows[1], cif_table.columns[i]))
         \o one_row_from(cif_table, kmax, i + 1)

write_one_row_table(cif_table) ==
    one_row_from(cif_table, kmax_from(cif_table, 1) + SPACING, 1)

\* write_multi_row_table's column declarations from column i on
RECURSIVE loop_tags_from(_, _)
loop_tags_from(cif_table, i) ==
    IF i > Len(cif_table.columns) THEN <<>>
    ELSE tag(cif_table, cif_table.columns[i]) \o <<"\n">> \o loop_tags_from(cif_table, i + 1)

\* the widest fixed value of column col from row j on
RECURSIVE vmax_from(_, _, _)
vmax_from(cif_table, col, j) ==
    IF j > Len(cif_table.rows) THEN 0
    ELSE max(Len(fix_value(row_value(cif_table.rows[j], col))),
             vmax_from(cif_table, col, j + 1))

\* vmax, the list of the maximum width of each column
vmax_list(cif_table) ==
    [i \in 1..Len(cif_table.columns) |-> vmax_from(cif_table, cif_table.columns[i], 1)]

\* the value of column i of a row, wlen being the room left on the line
\* after "we don't have enough space left on this line" was seen to
multi_row_value(val, width, wlen) ==
    IF width > MAX_LINE - 1
    THEN [text |-> <<";">> \o fix_big_string(val) \o <<"\n", ";", "\n">>, wlen |-> wlen]
    ELSE IF wlen < MAX_LINE - 1
    THEN [text |-> Spaces(SPACING) \o ljust(fix_value(val), width),
          wlen |-> wlen - SPACING - width]
    ELSE [text |-> ljust(fix_value(val), width), wlen |-> wlen - width]

\* one row of write_multi_row_table from column i on, wlen being the room
\* left on the line
RECURSIVE multi_row_from(_, _, _, _, _), multi_row_next(_, _, _, _, _)
multi_row_from(cif_table, row, vmax, i, wlen) ==
    IF i > Len(cif_table.columns)
    THEN IF wlen < MAX_LINE - 1 THEN <<"\n">> ELSE <<>>
    ELSE IF vmax[i] + SPACING > wlen /\ wlen < MAX_LINE - 1
    THEN <<"\n">> \o multi_row_next(cif_table, row, vmax, i,
                        multi_row_value(row_value(row, cif_table.columns[i]),
                                        vmax[i], MAX_LINE - 1))
    ELSE multi_row_next(cif_table, row, vmax, i,
                        multi_row_value(row_value(row, cif_table.columns[i]),
                                        vmax[i], wlen))

\* the value w is written and the row goes on
multi_row_next(cif_table, row, vmax, i, w) ==
    w.text \o multi_row_from(cif_table, row, vmax, i + 1, w.wlen)

\* write_multi_row_table's last loop from row j on
RECURSIVE multi_rows_from(_, _, _)
multi_rows_from(cif_table, vmax, j) ==
    IF j > Len(cif_table.rows) THEN <<>>
    ELSE multi_row_from(cif_table, cif_table.rows[j], vmax, 1, MAX_LINE - 1)
         \o multi_rows_from(cif_table, vmax, j + 1)

write_multi_row_table(cif_table) ==
    loop_ \o <<"\n">> \o loop_tags_from(cif_table, 1)
          \o multi_rows_from(cif_table, vmax_list(cif_table), 1)

\* write_cif_data's loop from table i on
RECURSIVE write_tables_from(_, _)
write_tables_from(cif_data, i) ==
    IF i > Len(cif_data.tables) THEN <<>>
    ELSE (IF Len(cif_data.tables[i].rows) = 0 THEN <<>>
          ELSE IF Len(cif_data.tables[i].rows) = 1
          THEN write_one_row_table(cif_data.tables[i]) \o <<"#", "\n">>
          ELSE write_multi_row_table(cif_data.tables[i]) \o <<"#", "\n">>)
         \o write_tables_from(cif_data, i + 1)

write_cif_data(cif_data) ==
    data_ \o cif_data.name \o <<"\n", "\n">> \o write_tables_from(cif_data, 1)

\* writeFile's loop from data section i on
RECURSIVE writeFile_from(_, _)
writeFile_from(cif_data_list, i) ==
    IF i > Len(cif_data_list) THEN <<>>
    ELSE write_cif_data(cif_data_list[i]) \o writeFile_from(cif_data_list, i + 1)

writeFile(cif_data_list) == writeFile_from(cif_data_list, 1)

\* the lines readline will return for a written text: each ends with its
\* newline, but for a last line that has none; cur is the line in progress
RECURSIVE readlines(_, _, _)
readlines(text, i, cur) ==
    IF i > Len(text) THEN IF cur = <<>> THEN <<>> ELSE <<cur>>
    ELSE IF text[i] = "\n" THEN <<Append(cur, "\n")>> \o readlines(text, i + 1, <<>>)
    ELSE readlines(text, i + 1, Append(cur, text[i]))

-----------------------------------------------------------------------------
(* Parsing a text: mmCIFFileParser().parseFile(fil) *)

MaxLines == 4

\* the lines a text is made of
InputLines ==
    { <<"d", "a", "t", "a", "_", "x", "\n">>,           \* data_x
      <<"_", "t", ".", "c", " ", "a", "\n">>,           \* _t.c a
      <<"_", "t", ".", "d", "\n">>,                     \* _t.d
      <<"_", "u", ".", "c", "\n">>,                     \* _u.c
      <<"_", "f", "o", "o", "\n">>,                     \* _foo
      <<"l", "o", "o", "p", "_", "\n">>,                \* loop_
      <<"a", " ", "'", "b", " ", "c", "'", "\n">>,      \* a 'b c'
      <<"'", "'", "\n">>,                               \* ''
      <<"#", "\n">>,                                    \* #
      <<";", "t", "\n">> }                              \* ;t

\* a last line that does not end in a newline
LastLines == { <<"b">> }

\* the first line of a data section named x
data_x == data_ \o <<"x", "\n">>

\* a text may take one more line: it has up to MaxLines lines, not counting
\* a first line data_x, and only its last line may lack the newline
TextOpen(lines) ==
    /\ Len(lines) < MaxLines + (IF lines # <<>> /\ lines[1] = data_x THEN 1 ELSE 0)
    /\ lines # <<>> => lines[Len(lines)] \in InputLines

StructIdle ==
    /\ structure = Structure0
    /\ models = <<>>
    /\ chains = <<>>
    /\ frags = <<>>
    /\ atoms = <<>>
    /\ last = NoCall

\* no call of the parser was made yet
ParserIdle == [mmCIFFileParser EXCEPT !.pc = "idle"]

InitParse ==
    /\ StructIdle
    /\ LoadIdle
    /\ GeomIdle
    /\ fil = File(<<>>)
    /\ cife = mmCIFElementFile
    /\ parser = ParserIdle
    /\ cif_file = <<>>

ParserState == [fil |-> fil, cife |-> cife, parser |-> parser]

SetParserState(S) ==
    /\ fil' = S.fil
    /\ cife' = S.cife
    /\ parser' = S.parser

\* the table read_loop is filling
LoopTable ==
    LET data == parser.data_list[Len(parser.data_list)]
    IN  data.tables[Len(data.tables)]

\* a line is added to the text that will be parsed
TextLine ==
    /\ parser.pc = "idle"
    /\ TextOpen(fil.lines)
    /\ \E line \in InputLines \cup LastLines : fil' = File(Append(fil.lines, line))
    /\ UNCHANGED <<struct_vars, cife, parser, cif_file, load_vars, geom_vars>>

\* parseFile(fil) is called on the text
ParseFileCall ==
    /\ parser.pc = "idle"
    /\ cife' = mmCIFElementFile
    /\ parser' = mmCIFFileParser
    /\ UNCHANGED <<struct_vars, fil, cif_file, load_vars, geom_vars>>

ParseFileStep ==
    /\ parser.pc = "parseFile"
    /\ \E S \in {parseFile_step(ParserState)} : SetParserState(S)
    /\ UNCHANGED <<struct_vars, cif_file, load_vars, geom_vars>>

ReadDataStep ==
    /\ parser.pc = "read_data"
    /\ \E S \in {read_data_step(ParserState)} : SetParserState(S)
    /\ UNCHANGED <<struct_vars, cif_file, load_vars, geom_vars>>

ReadLoopColumnsStep ==
    /\ parser.pc = "read_loop_columns"
    /\ \E S \in {read_loop_columns_step(ParserState)} : SetParserState(S)
    /\ UNCHANGED <<struct_vars, cif_file, load_vars, geom_vars>>

ReadLoopRowsStep ==
    /\ parser.pc = "read_loop_rows"
    /\ Len(LoopTable.rows) < MaxLoopRows
    /\ \E S \in {read_loop_rows_step(ParserState)} : SetParserState(S)
    /\ UNCHANGED <<struct_vars, cif_file, load_vars, geom_vars>>

NextParse ==
    \/ TextLine
    \/ ParseFileCall
    \/ ParseFileStep
    \/ ReadDataStep
    \/ ReadLoopColumnsStep
    \/ ReadLoopRowsStep

SpecParse == InitParse /\ [][NextParse]_vars

\* a call of parseFile runs until it returns or raises
FairSpecParse == SpecParse /\ WF_vars(NextParse)

-----------------------------------------------------------------------------
(* A file is built, saved and loaded again: mmCIFFile.saveFile, loadFile *)

MaxData == 2
MaxTables == 2
MaxColumns == 2
MaxRows == 2
MaxCells == 3

DataNames == { <<"x">> }
TableNames == { <<"t">>, <<"u">> }
ColumnNames == { <<"c">>, <<"d">> }
Values == { <<"a">>, <<"b", " ", "c">>, <<>>, <<"'", "a">> }

\* the number of values held by the tables from table i on, by the data
\* sections from section i on
RECURSIVE cells_of_tables(_, _)
cells_of_tables(tables, i) ==
    IF i > Len(tables) THEN 0
    ELSE Len(tables[i].rows) * Len(tables[i].columns) + cells_of_tables(tables, i + 1)

RECURSIVE cells_of(_, _)
cells_of(cif_data_list, i) ==
    IF i > Len(cif_data_list) THEN 0
    ELSE cells_of_tables(cif_data_list[i].tables, 1) + cells_of(cif_data_list, i + 1)

\* the number of tables held by the data sections from section i on
RECURSIVE tables_of(_, _)
tables_of(cif_data_list, i) ==
    IF i > Len(cif_data_list) THEN 0
    ELSE Len(cif_data_list[i].tables) + tables_of(cif_data_list, i + 1)

InitFile ==
    /\ StructIdle
    /\ LoadIdle
    /\ GeomIdle
    /\ fil = File(<<>>)
    /\ cife = mmCIFElementFile
    /\ parser = ParserIdle
    /\ cif_file = <<>>

\* the data section and the table the next call is made on: the last ones
LastData == Len(cif_file)
LastTable == Len(cif_file[LastData].tables)

\* cif_file.addData(mmCIFData(name))
FileAddData ==
    /\ last = NoCall
    /\ Len(cif_file) < MaxData
    /\ \E name \in DataNames : cif_file' = Append(cif_file, mmCIFData(name))
    /\ UNCHANGED <<structure, models, chains, frags, atoms, last, fil, cife, parser, load_vars, geom_vars>>

\* cif_data.addTable(mmCIFTable(name))
FileAddTable ==
    /\ last = NoCall
    /\ cif_file # <<>>
    /\ tables_of(cif_file, 1) < MaxTables
    /\ \E name \in TableNames :
          cif_file' = [cif_file EXCEPT ![LastData] =
                          mmCIFData_addTable(@, mmCIFTable(name, <<>>)).data]
    /\ UNCHANGED <<structure, models, chains, frags, atoms, last, fil, cife, parser, load_vars, geom_vars>>

\* cif_table.addColumn(cname), before the table has rows
FileAddColumn ==
    /\ last = NoCall
    /\ cif_file # <<>>
    /\ cif_file[LastData].tables # <<>>
    /\ cif_file[LastData].tables[LastTable].rows = <<>>
    /\ Len(cif_file[LastData].tables[LastTable].columns) < MaxColumns
    /\ \E cname \in ColumnNames :
          cif_file' = [cif_file EXCEPT ![LastData].tables[LastTable].columns =
                          Append(@, cname)]
    /\ UNCHANGED <<structure, models, chains, frags, atoms, last, fil, cife, parser, load_vars, geom_vars>>

\* cif_table.addRow(row) for a row with a value for each column
FileAddRow ==
    /\ last = NoCall
    /\ cif_file # <<>>
    /\ cif_file[LastData].tables # <<>>
    /\ Len(cif_file[LastData].tables[LastTable].rows) < MaxRows
    /\ cells_of(cif_file, 1) + Len(cif_file[LastData].tables[LastTable].columns) <= MaxCells
    /\ \E row \in [Range(cif_file[LastData].tables[LastTable].columns) -> Values] :
          cif_file' = [cif_file EXCEPT ![LastData].tables[LastTable].rows =
                          Append(@, row)]
    /\ UNCHANGED <<structure, models, chains, frags, atoms, last, fil, cife, parser, load_vars, geom_vars>>

\* cif_file.saveFile(fil)
SaveFile ==
    /\ last = NoCall
    /\ fil' = File(readlines(writeFile(cif_file), 1, <<>>))
    /\ last' = Call("saveFile", None, "", None, "")
    /\ UNCHANGED <<structure, models, chains, frags, atoms, cife, parser, cif_file, load_vars, geom_vars>>

\* mmCIFFile().loadFile(fil): parseFile is called on the text saved
LoadFile ==
    /\ last.op = "saveFile"
    /\ cife' = mmCIFElementFile
    /\ parser' = mmCIFFileParser
    /\ last' = Call("loadFile", None, "", None, "")
    /\ UNCHANGED <<structure, models, chains, frags, atoms, fil, cif_file, load_vars, geom_vars>>

NextFile ==
    \/ FileAddData
    \/ FileAddTable
    \/ FileAddColumn
    \/ FileAddRow
    \/ SaveFile
    \/ LoadFile
    \/ ParseFileStep
    \/ ReadDataStep
    \/ ReadLoopColumnsStep
    \/ ReadLoopRowsStep

SpecFile == InitFile /\ [][NextFile]_vars

-----------------------------------------------------------------------------
(* Claims about parsing *)

\* C4: parseFile terminates on every finite text: after finitely many steps
\* it has returned its list of data sections or raised an error, also for a
\* loop_ that no column declaration follows.
C4_ParseTerminates == <>(parser.pc \in {"returned", "raised"})

\* C4 witness: a loop_ without a column declaration has been read and the
\* call has ended
C4_Witness ==
    /\ parser.pc = "raised"
    /\ parser.err.kind = "TypeError"
    /\ parser.table_name = NoneName
    /\ parser.cname_list = <<>>
    /\ \E j \in 1..fil.pos : fil.lines[j] = loop_ \o <<"\n">>

\* C5: parseFile returns its data sections or fails with the parser's Syntax
\* error carrying a line number and a message, never with another error.
C5_OnlySyntaxErrors ==
    parser.pc = "raised"
        => /\ parser.err.kind = "mmCIF Syntax Error"
           /\ parser.err.line >= 1
           /\ parser.err.msg # ""

-----------------------------------------------------------------------------
(* Claims about writing a file and parsing it again *)

\* the values of a list of data sections
ValuesOf(cif_data_list) ==
    { cif_data_list[d].tables[t].rows[r][c] :
        <<d, t, r, c>> \in
            { q \in (1..MaxData) \X (1..MaxTables) \X (1..MaxLoopRows) \X ColumnNames :
                /\ q[1] <= Len(cif_data_list)
                /\ q[2] <= Len(cif_data_list[q[1]].tables)
                /\ q[3] <= Len(cif_data_list[q[1]].tables[q[2]].rows)
                /\ q[4] \in DOMAIN cif_data_list[q[1]].tables[q[2]].rows[q[3]] } }

\* a value that is or begins like a section or loop control marker
ControlMarker(val) ==
    \/ StartsWith(val, data_)
    \/ StartsWith(val, loop_)
    \/ StartsWith(val, save_)
    \/ StartsWith(val, <<"_">>)

\* the file was saved and loaded, and the parser is through with it
Reloaded == last.op = "loadFile" /\ parser.pc \in {"returned", "raised"}

\* every table holds values: it has a column and a row
HoldsValues(cif_data_list) ==
    \A d \in 1..Len(cif_data_list) : \A t \in 1..Len(cif_data_list[d].tables) :
        /\ cif_data_list[d].tables[t].columns # <<>>
        /\ cif_data_list[d].tables[t].rows # <<>>

PlainValue(val) ==
    /\ val # <<>>
    /\ Len(fix_value(val)) <= MAX_LINE - 1
    /\ \A j \in 1..Len(val) : val[j] \in whitespace => val[j] = " "
    /\ val[1] \notin QUOTES \cup {"#", ";"}
    /\ ~ControlMarker(val)
    /\ \A j \in 1..(Len(val) - 1) : val[j] \in QUOTES => val[j + 1] # " "

\* a table the writer writes in full: it has a column and a row, no column
\* twice, and every row holds a plain value for each column and nothing else
FullTable(cif_table) ==
    /\ cif_table.columns # <<>>
    /\ cif_table.rows # <<>>
    /\ \A j, k \in 1..Len(cif_table.columns) :
          cif_table.columns[j] = cif_table.columns[k] => j = k
    /\ \A r \in 1..Len(cif_table.rows) :
          /\ DOMAIN cif_table.rows[r] = Range(cif_table.columns)
          /\ \A c \in DOMAIN cif_table.rows[r] : PlainValue(cif_table.rows[r][c])

RoundTripSafe(cif_data_list) ==
    \A d \in 1..Len(cif_data_list) :
        /\ \A t \in 1..Len(cif_data_list[d].tables) :
              FullTable(cif_data_list[d].tables[t])
        /\ \A j, k \in 1..Len(cif_data_list[d].tables) :
              cif_data_list[d].tables[j].name = cif_data_list[d].tables[k].name => j = k

-----------------------------------------------------------------------------
(* Children added one at a time: add_model, add_chain, add_fragment *)

MaxChildModels == 2
MaxChildChains == 2
MaxChildFrags == 3

\* a call that adds the child obj to the parent
ChildCall(op, parent, obj, err) ==
    [op |-> op, atom |-> None, alt_loc |-> "", obj |-> obj, err |-> err, parent |-> parent]

\* structure.add_model(Model(model_id), delay_sort)
ChildAddModel ==
    \E model_id \in ModelIds, delay_sort \in BOOLEAN :
        /\ Len(models) < MaxChildModels
        /\ LET m == Len(models) + 1
               r == Structure_add_model([World EXCEPT !.models = Append(@, Model(model_id))],
                                        m, delay_sort)
           IN  /\ SetWorld(r.W)
               /\ last' = ChildCall("add_model", StructureRef, m, r.err)
        /\ UNCHANGED <<cif_vars, load_vars, geom_vars>>

\* model.add_chain(Chain(model_id, chain_id), delay_sort)
ChildAddChain ==
    \E m \in 1..Len(models), chain_id \in ChainIds, delay_sort \in BOOLEAN :
        /\ Len(chains) < MaxChildChains
        /\ LET c == Len(chains) + 1
               r == Model_add_chain(
                        [World EXCEPT !.chains = Append(@, Chain(models[m].model_id, chain_id))],
                        m, c, delay_sort)
           IN  /\ SetWorld(r.W)
               /\ last' = ChildCall("add_chain", m, c, r.err)
        /\ UNCHANGED <<cif_vars, load_vars, geom_vars>>

\* chain.add_fragment(Fragment(model_id, chain_id, fragment_id, res_name), delay_sort)
ChildAddFragment ==
    \E c \in 1..Len(chains), fragment_id \in FragmentIds, delay_sort \in BOOLEAN :
        /\ Len(frags) < MaxChildFrags
        /\ LET fh == Len(frags) + 1
               r  == Chain_add_fragment(
                         [World EXCEPT !.frags = Append(@, Fragment(chains[c].model_id,
                                                     chains[c].chain_id, fragment_id, "GLY"))],
                         c, fh, delay_sort)
           IN  /\ SetWorld(r.W)
               /\ last' = ChildCall("add_fragment", c, fh, r.err)
        /\ UNCHANGED <<cif_vars, load_vars, geom_vars>>

NextChildren ==
    \/ ChildAddModel
    \/ ChildAddChain
    \/ ChildAddFragment

SpecChildren == InitStruct /\ [][NextChildren]_vars

-----------------------------------------------------------------------------
(* Claims about adding children *)

\* C11: adding a child whose id is used in the parent raises the matching
\* overwrite error (ModelOverwrite, ChainOverwrite, FragmentOverwrite) and
\* leaves the parent's child list and id lookup, the default model, every
\* other object and the rejected child (its parent reference included) as
\* they were before the call.
C11_UsedIdRaises ==
    [][/\ (/\ last'.op = "add_model"
           /\ has_key(structure.model_dict, models'[last'.obj].model_id))
          => /\ last'.err = "ModelOverwrite"
             /\ structure' = structure
             /\ models' = Append(models, Model(models'[last'.obj].model_id))
             /\ UNCHANGED <<chains, frags, atoms>>
       /\ (/\ last'.op = "add_chain"
           /\ has_key(models[last'.parent].chain_dict, chains'[last'.obj].chain_id))
          => /\ last'.err = "ChainOverwrite"
             /\ chains' = Append(chains, Chain(models[last'.parent].model_id,
                                               chains'[last'.obj].chain_id))
             /\ UNCHANGED <<structure, models, frags, atoms>>
       /\ (/\ last'.op = "add_fragment"
           /\ has_key(chains[last'.parent].fragment_dict, frags'[last'.obj].fragment_id))
          => /\ last'.err = "FragmentOverwrite"
             /\ frags' = Append(frags, Fragment(chains[last'.parent].model_id,
                                                chains[last'.parent].chain_id,
                                                frags'[last'.obj].fragment_id, "GLY"))
             /\ UNCHANGED <<structure, models, chains, atoms>>]_vars

\* C11 witness: a Model and a Chain were refused before, and now a Fragment
\* is refused by a Chain that holds one with its id
C11_Witness ==
    /\ last.op = "add_fragment" /\ last.err = "FragmentOverwrite"
    /\ has_key(chains[last.parent].fragment_dict, frags[last.obj].fragment_id)
    /\ frags[last.obj].chain = None
    /\ \E m \in 1..Len(models) :
           /\ models[m].structure = None
           /\ has_key(structure.model_dict, models[m].model_id)
    /\ \E c \in 1..Len(chains) : chains[c].model = None

-----------------------------------------------------------------------------
(* Claims about Structure.add_atom *)

\* the Fragment the ids of the atom name in the hierarchy, None when there is none
NamedFragment(W, atom) ==
    IF ~has_key(W.structure.model_dict, atom.model_id) THEN None
    ELSE LET model == W.models[W.structure.model_dict[atom.model_id]]
         IN  IF ~has_key(model.chain_dict, atom.chain_id) THEN None
             ELSE LET chain == W.chains[model.chain_dict[atom.chain_id]]
                  IN  IF ~has_key(chain.fragment_dict, atom.fragment_id) THEN None
                      ELSE chain.fragment_dict[atom.fragment_id]

\* C12: Structure.add_atom with an atom whose model_id, chain_id and
\* fragment_id name an existing Fragment of another res_name raises
\* FragmentOverwrite and leaves the hierarchy as it was: no Model, Chain,
\* Fragment or Atom is added, no atom is relabelled, and the refused atom
\* keeps its label and stays outside every Fragment.
C12_ResNameMismatchRaises ==
    [][(/\ last'.op = "add_atom"
        /\ NamedFragment(World, atoms'[last'.atom]) # None
        /\ frags[NamedFragment(World, atoms'[last'.atom])].res_name
               # atoms'[last'.atom].res_name)
       => (/\ last'.err = "FragmentOverwrite"
           /\ UNCHANGED <<structure, models, chains, frags>>
           /\ SubSeq(atoms', 1, Len(atoms)) = atoms
           /\ Len(atoms') = Len(atoms) + 1
           /\ atoms'[last'.atom].alt_loc = last'.alt_loc
           /\ atoms'[last'.atom].fragment = None
           /\ atoms'[last'.atom].altloc = None)]_vars

\* C12 witness: the Fragment holds an atom, and an atom of another res_name
\* was refused
C12_Witness ==
    /\ last.op = "add_atom" /\ last.err = "FragmentOverwrite"
    /\ Len(atoms) = 2 /\ Len(frags) = 1
    /\ atoms[1].fragment = 1
    /\ atoms[2].fragment = None
    /\ atoms[2].res_name # frags[1].res_name
    /\ NamedFragment(World, atoms[2]) = 1

-----------------------------------------------------------------------------
(* Structure.sort, Model.sort, Segment.sort *)

\* Segment.sort
Segment_sort(W, c) ==
    [W EXCEPT !.chains = [@ EXCEPT ![c].fragment_list = ListSort(@, Fragment_lt(W))]]

\* the loop of Model.sort over the chains of chain_list, from the i-th on
RECURSIVE Model_sort_chains(_, _, _)
Model_sort_chains(W, chain_list, i) ==
    IF i > Len(chain_list) THEN W
    ELSE Model_sort_chains(Segment_sort(W, chain_list[i]), chain_list, i + 1)

\* Model.sort, were it to sort the chain list only
Model_sort_list_only(W, m) ==
    [W EXCEPT !.models = [@ EXCEPT ![m].chain_list = ListSort(@, Segment_lt(W))]]

\* Model.sort
Model_sort(W, m) ==
    LET W1 == [W EXCEPT !.models = [@ EXCEPT ![m].chain_list = ListSort(@, Segment_lt(W))]]
    IN  Model_sort_chains(W1, W1.models[m].chain_list, 1)

\* the loop of Structure.sort over the models of model_list, from the i-th on
RECURSIVE Structure_sort_models(_, _, _)
Structure_sort_models(W, model_list, i) ==
    IF i > Len(model_list) THEN W
    ELSE Structure_sort_models(Model_sort(W, model_list[i]), model_list, i + 1)

\* Structure.sort
Structure_sort(W) ==
    LET W1 == [W EXCEPT !.structure.model_list = ListSort(@, Model_lt(W))]
    IN  Structure_sort_models(W1, W1.structure.model_list, 1)

-----------------------------------------------------------------------------
(* A load: the same atoms are added to one Structure without delayed        *)
(* sorting and to a second one, twin, with delayed sorting; twin is sorted  *)
(* when the load is over.                                                   *)

MaxLoadAtoms == 3

InitLoad ==
    /\ StructIdle
    /\ twin = World
    /\ annots = <<>>
    /\ CifIdle
    /\ GeomIdle

\* structure.add_atom(atom, delay_sort = False) and, with a copy of the atom,
\* twin.add_atom(atom, delay_sort = True)
LoadAtom ==
    \E model_id \in ModelIds, chain_id \in ChainIds, fragment_id \in FragmentIds,
       res_name \in ResNames :
        /\ last.op # "sort"
        /\ Len(atoms) < MaxLoadAtoms
        /\ LET atom == Atom("CA", "", res_name, fragment_id, chain_id, model_id)
               a == Len(atoms) + 1
               r == Structure_add_atom([World EXCEPT !.atoms = Append(@, atom)], a, FALSE)
               t == Structure_add_atom([twin EXCEPT !.atoms = Append(@, atom)], a, TRUE)
           IN  /\ SetWorld(r.W)
               /\ twin' = t.W
               /\ last' = Call("add_atom", a, "", None, r.err)
        /\ UNCHANGED <<annots, cif_vars, geom_vars>>

\* twin.sort(), which ends the load
LoadSort ==
    /\ last.op # "sort"
    /\ twin' = Structure_sort(twin)
    /\ last' = Call("sort", None, "", None, "")
    /\ UNCHANGED <<structure, models, chains, frags, atoms, annots, cif_vars, geom_vars>>

NextLoad ==
    \/ LoadAtom
    \/ LoadSort

SpecLoad == InitLoad /\ [][NextLoad]_vars

-----------------------------------------------------------------------------
(* Claims about the order of iteration *)

\* the models of W iterate in ascending model_id, the chains of each of them
\* in ascending chain_id, and no fragment of a chain comes after one whose
\* (sequence number, insertion code) is greater
InOrder(W) ==
    /\ \A j, k \in 1..Len(W.structure.model_list) :
          j < k => W.models[W.structure.model_list[j]].model_id
                       < W.models[W.structure.model_list[k]].model_id
    /\ \A m \in Range(W.structure.model_list) :
          \A j, k \in 1..Len(W.models[m].chain_list) :
              j < k => ord(W.chains[W.models[m].chain_list[j]].chain_id)
                           < ord(W.chains[W.models[m].chain_list[k]].chain_id)
    /\ \A c \in 1..Len(W.chains) :
          \A j, k \in 1..Len(W.chains[c].fragment_list) :
              j < k => ~TupleLt(
                  fragment_id_split(W.frags[W.chains[c].fragment_list[k]].fragment_id),
                  fragment_id_split(W.frags[W.chains[c].fragment_list[j]].fragment_id))

\* the models were made in descending order of their ids, and so were two
\* fragments of one chain
MadeInDescendingOrder(W) ==
    /\ Len(W.structure.model_list) = 2
    /\ W.structure.model_list[1] > W.structure.model_list[2]
    /\ \E c \in 1..Len(W.chains) :
          /\ Len(W.chains[c].fragment_list) = 2
          /\ W.chains[c].fragment_list[1] > W.chains[c].fragment_list[2]

\* C13: after every call of a sequence of Structure.add_atom calls made
\* without delayed sorting the models iterate in ascending model_id, each
\* Model's chains in ascending chain_id and each Chain's fragments in
\* ascending (sequence number, insertion code).
C13_SortedAfterEveryAdd == InOrder(World)

\* C13 witness: models and fragments that were added in descending order
\* iterate in ascending order
C13_Witness ==
    /\ last.op = "add_atom"
    /\ MadeInDescendingOrder(World)
    /\ InOrder(World)

\* C14: a load with delayed sorting followed by one Structure.sort() gives
\* the hierarchy the load without delayed sorting gives: the same models,
\* chains, fragments and atoms in the same order, and the same default model.
C14_DelayedLoadThenSort == (last.op = "sort") => (twin = World)

\* C14 witness: the sort moved models and fragments of the delayed load,
\* which were added in descending order
C14_Witness ==
    /\ last.op = "sort"
    /\ MadeInDescendingOrder(twin)
    /\ twin = World

-----------------------------------------------------------------------------
(* One Chain on its own: add_fragment and sort *)

MaxIdFrags == 5

TheChain == 1

IdStrings == {<<"9">>, <<"1", "0">>, <<"5", "A">>, <<"5">>, <<"6">>, <<"5", "B">>}

InitIds ==
    /\ structure = Structure0
    /\ models = <<>>
    /\ chains = <<Chain(1, "A")>>
    /\ frags = <<>>
    /\ atoms = <<>>
    /\ last = NoCall
    /\ CifIdle
    /\ LoadIdle
    /\ GeomIdle

\* chain.add_fragment(Fragment(1, "A", fragment_id, "GLY"), delay_sort)
IdsAddFragment ==
    \E fragment_id \in IdStrings, delay_sort \in BOOLEAN :
        /\ Len(frags) < MaxIdFrags
        /\ LET fh == Len(frags) + 1
               r  == Chain_add_fragment(
                         [World EXCEPT !.frags = Append(@, Fragment(1, "A", fragment_id, "GLY"))],
                         TheChain, fh, delay_sort)
           IN  /\ SetWorld(r.W)
               /\ last' = ChildCall("add_fragment", TheChain, fh, r.err)
        /\ UNCHANGED <<cif_vars, load_vars, geom_vars>>

\* chain.sort()
IdsSort ==
    /\ SetWorld(Segment_sort(World, TheChain))
    /\ last' = Call("sort", None, "", TheChain, "")
    /\ UNCHANGED <<cif_vars, load_vars, geom_vars>>

NextIds ==
    \/ IdsAddFragment
    \/ IdsSort

SpecIds == InitIds /\ [][NextIds]_vars

-----------------------------------------------------------------------------
(* Claims about fragment ids *)

\* the sequence number and the insertion code of an id as the claim reads
\* them: the value of its digits, and the letter after them (none: <<>>)
SequenceNumber(id) == IntValue(SelectSeq(id, IsDigit))
InsertionCode(id) == SelectSeq(id, LAMBDA ch : ~IsDigit(ch))

\* id1 comes before id2: by number, then no code before any code, then by code
ComesBefore(id1, id2) ==
    \/ SequenceNumber(id1) < SequenceNumber(id2)
    \/ /\ SequenceNumber(id1) = SequenceNumber(id2)
       /\ \/ InsertionCode(id1) = <<>> /\ InsertionCode(id2) # <<>>
          \/ /\ InsertionCode(id1) # <<>> /\ InsertionCode(id2) # <<>>
             /\ ord(InsertionCode(id1)[1]) < ord(InsertionCode(id2)[1])

\* the ids of the Fragments of the chain, in the order of its fragment list
ChainIdList == [j \in 1..Len(chains[TheChain].fragment_list) |->
                   frags[chains[TheChain].fragment_list[j]].fragment_id]

ExampleIds == {<<"9">>, <<"1", "0">>, <<"5", "A">>, <<"5">>, <<"6">>}
ExampleSorted == << <<"5">>, <<"5", "A">>, <<"6">>, <<"9">>, <<"1", "0">> >>

\* C15: fragment ids compare as (sequence number, insertion code) tuples, an
\* id without code before the same number with a code, never as strings:
\* the four comparisons agree with that order, which is a strict total order
\* on the ids of a chain, a sorted chain iterates in it, and the ids
\* "9", "10", "5A", "5", "6" sort to "5", "5A", "6", "9", "10".
C15_FragmentIdOrder ==
    LET ids == Range(ChainIdList)
        lt  == {p \in ids \X ids : fragment_id_lt(p[1], p[2])}
        before == {p \in ids \X ids : ComesBefore(p[1], p[2])}
    IN  /\ lt = before
        /\ \A x, y \in ids :
              /\ fragment_id_gt(x, y) <=> <<y, x>> \in before
              /\ fragment_id_le(x, y) <=> <<y, x>> \notin before
              /\ fragment_id_ge(x, y) <=> <<x, y>> \notin before
              /\ ~(<<x, y>> \in lt /\ <<y, x>> \in lt)
              /\ x # y => (<<x, y>> \in lt \/ <<y, x>> \in lt)
        /\ \A x, y, z \in ids :
              (<<x, y>> \in lt /\ <<y, z>> \in lt) => <<x, z>> \in lt
        /\ last.op = "sort"
              => /\ \A j, k \in 1..Len(ChainIdList) :
                       j < k => <<ChainIdList[j], ChainIdList[k]>> \in before
                 /\ ids = ExampleIds => ChainIdList = ExampleSorted

\* C15 witness: the Fragments "9", "10", "5A", "5", "6", added in this order
\* without sorting, were sorted
C15_Witness ==
    /\ last.op = "sort"
    /\ [f \in 1..Len(frags) |-> frags[f].fragment_id]
           = << <<"9">>, <<"1", "0">>, <<"5", "A">>, <<"5">>, <<"6">> >>
    /\ ChainIdList = ExampleSorted

\* how often x is in the sequence
Count(seq, x) == Cardinality({j \in 1..Len(seq) : seq[j] = x})

\* the atom x is held in W: the Structure owns a Model of its model_id, the
\* Model a Chain of its chain_id, the Chain a Fragment of its fragment_id and
\* res_name, the atom is once in the Fragment's iteration over all atoms, and
\* the back-references lead from the atom up to the Structure
Held(W, x) ==
    LET atom == W.atoms[x]
    IN  /\ has_key(W.structure.model_dict, atom.model_id)
        /\ LET m == W.structure.model_dict[atom.model_id]
           IN  /\ Count(W.structure.model_list, m) = 1
               /\ W.models[m].model_id = atom.model_id
               /\ W.models[m].structure = StructureRef
               /\ has_key(W.models[m].chain_dict, atom.chain_id)
               /\ LET c == W.models[m].chain_dict[atom.chain_id]
                  IN  /\ Count(W.models[m].chain_list, c) = 1
                      /\ W.chains[c].chain_id = atom.chain_id
                      /\ W.chains[c].model = m
                      /\ has_key(W.chains[c].fragment_dict, atom.fragment_id)
                      /\ LET fh == W.chains[c].fragment_dict[atom.fragment_id]
                         IN  /\ Count(W.chains[c].fragment_list, fh) = 1
                             /\ W.frags[fh].fragment_id = atom.fragment_id
                             /\ W.frags[fh].res_name = atom.res_name
                             /\ W.frags[fh].chain = c
                             /\ atom.fragment = fh
                             /\ Count(Fragment_iter_all_atoms(W.frags[fh]), x) = 1

\* C16: after a successful Structure.add_atom(a) the Structure owns a Model
\* of a's model_id, that Model a Chain of its chain_id, that Chain a Fragment
\* of its fragment_id and res_name, a is exactly once in that Fragment's
\* iteration over all atoms, the back-references lead from a up to the
\* Structure, and every atom added before is still held exactly once.
C16_AddAtomHolds ==
    [][(last'.op = "add_atom" /\ last'.err = "")
       => /\ Held(World', last'.atom)
          /\ \A x \in 1..Len(atoms) : Held(World, x) => Held(World', x)]_vars

\* C16 witness: a second atom was added to a Fragment of the second Model
\* that was made, and both atoms are held
C16_Witness ==
    /\ last.op = "add_atom" /\ last.err = "" /\ last.atom = 2
    /\ Held(World, 1) /\ Held(World, 2)
    /\ atoms[1].fragment # atoms[2].fragment
    /\ Len(structure.model_list) = 2

-----------------------------------------------------------------------------
(* Claims about removing atoms from one Fragment *)

\* C17: Fragment.remove_atom(a) for an atom the fragment holds removes a
\* and nothing else: a is in neither the iteration over all atoms nor the
\* visible list and name map, its fragment reference is None, and every
\* other atom is held as before.  When a was the last member of its Altloc
\* the Altloc is gone from the backing sequence and from the lookup by name,
\* and an unlabelled atom added to a fragment that holds no atom of its name
\* becomes a plain atom without label.
C17_RemoveAtom ==
    [][/\ last'.op = "remove_atom"
          => LET a == last'.atom
                 f == frags[TheFragment]
                 g == frags'[TheFragment]
                 name == atoms[a].name
             IN  /\ Count(Fragment_iter_all_atoms(g), a) = 0
                 /\ Count(g.atom_list, a) = 0
                 /\ \A n \in DOMAIN g.atom_dict : g.atom_dict[n] # a
                 /\ atoms'[a].fragment = None
                 /\ \A x \in 1..Len(atoms) :
                       (x # a /\ atoms[x].fragment = TheFragment)
                       => /\ atoms'[x] = atoms[x]
                          /\ Count(Fragment_iter_all_atoms(g), x) = 1
                          /\ Count(g.atom_list, x) = Count(f.atom_list, x)
                 /\ Len(Fragment_iter_all_atoms(g)) = Len(Fragment_iter_all_atoms(f)) - 1
                 /\ (has_key(f.alt_loc_dict, name) /\ Named(atoms, name) = {a})
                       => /\ ~has_key(g.alt_loc_dict, name)
                          /\ Count(g.atom_order_list, AltlocEntry(name)) = 0
                          /\ Len(g.atom_order_list) = Len(f.atom_order_list) - 1
       /\ (/\ last'.op = "add_atom" /\ last'.alt_loc = "" /\ last'.err = ""
           /\ Named(atoms, atoms'[last'.atom].name) = {})
          => LET a == last'.atom
                 g == frags'[TheFragment]
             IN  /\ atoms'[a].alt_loc = ""
                 /\ atoms'[a].altloc = None
                 /\ ~has_key(g.alt_loc_dict, atoms'[a].name)
                 /\ Count(g.atom_order_list, AtomEntry(atoms', a)) = 1]_vars

\* C17 witness: the only member of the Altloc of its name was removed, the
\* Altloc is gone, and the atom of the other name is still there
C17_Witness ==
    /\ last.op = "remove_atom"
    /\ atoms[last.atom].alt_loc = "A"
    /\ atoms[last.atom].fragment = None
    /\ Named(atoms, atoms[last.atom].name) = {}
    /\ DOMAIN frags[TheFragment].alt_loc_dict = {}
    /\ Len(frags[TheFragment].atom_order_list) = 1
    /\ Len(frags[TheFragment].atom_list) = 1

-----------------------------------------------------------------------------
(* One Fragment filled with the atoms of one name until no label is free *)

MaxFullAtoms == 28

\* the labels the atoms of the name carry in the fragment
LabelsOf(name) == {atoms[x].alt_loc : x \in Named(atoms, name)}

\* a new Atom with the first label that is free is made and added
FullAddLabelled ==
    /\ Len(atoms) < MaxFullAtoms
    /\ \E j \in 1..Len(uppercase) : uppercase[j] \notin LabelsOf("CA")
    /\ FragDoAdd(Append(atoms, Atom("CA", FirstFree(LabelsOf("CA")), "GLY", <<"5">>, "A", 1)),
                 Len(atoms) + 1)
    /\ UNCHANGED <<structure, models, chains, cif_vars, load_vars, geom_vars>>

\* a new Atom without label, or with a label that may be taken, is made and added
FullAddAtom ==
    \E alt_loc \in {"", "A", "Z"} :
        /\ Len(atoms) < MaxFullAtoms
        /\ FragDoAdd(Append(atoms, Atom("CA", alt_loc, "GLY", <<"5">>, "A", 1)),
                     Len(atoms) + 1)
        /\ UNCHANGED <<structure, models, chains, cif_vars, load_vars, geom_vars>>

NextFull ==
    \/ FullAddLabelled
    \/ FullAddAtom
    \/ FragSetDefaultAltLoc

SpecFull == InitFrag /\ [][NextFull]_vars

-----------------------------------------------------------------------------
(* Claims about a full Altloc *)

\* the Altloc of the name holds an atom for each of the 26 uppercase labels
FullAltloc(f, name) ==
    /\ has_key(f.alt_loc_dict, name)
    /\ \A j \in 1..Len(uppercase) : has_key(f.alt_loc_dict[name], uppercase[j])

\* C18: when the Altloc of a name uses all 26 uppercase labels, adding one
\* more atom of the name that needs a label assigned (it has none, or one
\* that is taken) raises AtomOverwrite and changes nothing: the fragment
\* with its backing sequence, Altlocs and visible view and the atoms it
\* holds are as before, and the refused atom keeps its label and has no
\* fragment.
C18_FullAltlocRaises ==
    [][(/\ last'.op = "add_atom"
        /\ FullAltloc(frags[TheFragment], atoms'[last'.atom].name)
        /\ \/ last'.alt_loc = ""
           \/ has_key(frags[TheFragment].alt_loc_dict[atoms'[last'.atom].name],
                      last'.alt_loc))
       => (/\ last'.err = "AtomOverwrite"
           /\ frags' = frags
           /\ SubSeq(atoms', 1, Len(atoms)) = atoms
           /\ Len(atoms') = Len(atoms) + 1
           /\ atoms'[last'.atom].alt_loc = last'.alt_loc
           /\ atoms'[last'.atom].fragment = None
           /\ atoms'[last'.atom].altloc = None)]_vars

\* C18 witness: the 27th atom of the name, which has no label, was refused
C18_Witness ==
    /\ last.op = "add_atom" /\ last.err = "AtomOverwrite" /\ last.alt_loc = ""
    /\ FullAltloc(frags[TheFragment], "CA")
    /\ Cardinality(Named(atoms, "CA")) = 26
    /\ Len(atoms) = 27
    /\ atoms[27].fragment = None /\ atoms[27].alt_loc = ""

-----------------------------------------------------------------------------
(* GeometryDict.py: XYZDict.  Coordinates, resolution and radius are whole  *)
(* multiples of one unit of length; floats says whether they are Python     *)
(* floats or ints, which decides what "/" does.                             *)

\* int(a / b) for b > 0: "/" of floats divides and int() cuts the fraction
\* off towards zero, "/" of ints is the floor division
int_div(a, b, floats) ==
    IF floats /\ a < 0 THEN -((-a) \div b) ELSE a \div b

\* XYZDict.__init__
XYZDict(resolution, floats) ==
    [resolution |-> resolution, floats |-> floats, geom_dict |-> EmptyDict]

\* XYZDict.calc_geom_key
calc_geom_key(d, position) ==
    <<int_div(position[1], d.resolution, d.floats),
      int_div(position[2], d.resolution, d.floats),
      int_div(position[3], d.resolution, d.floats)>>

geom_tuple(position, item) == [position |-> position, item |-> item]

\* XYZDict.add
XYZDict_add(d, position, item) ==
    LET geom_key == calc_geom_key(d, position)
    IN  [d EXCEPT !.geom_dict =
            IF has_key(@, geom_key)
            THEN [@ EXCEPT ![geom_key] = Append(@, geom_tuple(position, item))]
            ELSE DictSet(@, geom_key, <<geom_tuple(position, item)>>)]

\* XYZDict.remove: the first tuple of the position's cell whose item equals
\* the item is taken, and list.remove drops the first tuple equal to it
XYZDict_remove(d, position, item) ==
    LET geom_key == calc_geom_key(d, position)
        geom_list == IF has_key(d.geom_dict, geom_key) THEN d.geom_dict[geom_key] ELSE <<>>
        found == {n \in DOMAIN geom_list : geom_list[n].item = item}
    IN  IF found = {}
        THEN [d |-> d, err |-> "ValueError"]
        ELSE LET n == CHOOSE j \in found : \A k \in found : j <= k
                 m == CHOOSE j \in DOMAIN geom_list :
                          /\ geom_list[j] = geom_list[n]
                          /\ \A k \in 1..(j - 1) : geom_list[k] # geom_list[n]
             IN  [d |-> [d EXCEPT !.geom_dict[geom_key] =
                            SubSeq(@, 1, m - 1) \o SubSeq(@, m + 1, Len(@))],
                  err |-> ""]

\* XYZDict.iter_all: the lists of geom_dict.values(), which come in the
\* order keys the dict happens to have
RECURSIVE iter_all(_, _)
iter_all(d, keys) ==
    IF keys = <<>> THEN <<>>
    ELSE d.geom_dict[Head(keys)] \o iter_all(d, Tail(keys))

\* iter_cube_intersection, were it to leave the "+ 1" out
bounding_cube_blocks_short(d, radius) == int_div(radius, d.resolution, d.floats)

\* int(radius / self.resolution) + 1
bounding_cube_blocks(d, radius) == int_div(radius, d.resolution, d.floats) + 1

\* the keys the three nested range(-blocks, blocks + 1) loops make, in loop order
cube_keys(center_geom_key, blocks) ==
    LET w == IF blocks < 0 THEN 0 ELSE 2 * blocks + 1
    IN  [n \in 1..(w * w * w) |->
            <<center_geom_key[1] - blocks + ((n - 1) \div (w * w)),
              center_geom_key[2] - blocks + (((n - 1) \div w) % w),
              center_geom_key[3] - blocks + ((n - 1) % w)>>]

\* the body of the loops for the lo-th to the hi-th key: the tuples of the
\* keys that are in geom_dict, in loop order
RECURSIVE cube_tuples(_, _, _, _)
cube_tuples(d, keys, lo, hi) ==
    IF lo > hi THEN <<>>
    ELSE IF lo = hi
         THEN IF has_key(d.geom_dict, keys[lo]) THEN d.geom_dict[keys[lo]] ELSE <<>>
         ELSE cube_tuples(d, keys, lo, (lo + hi) \div 2)
              \o cube_tuples(d, keys, (lo + hi) \div 2 + 1, hi)

\* the tuples of all the keys
all_cube_tuples(d, keys) == cube_tuples(d, keys, 1, Len(keys))

\* XYZDict.iter_cube_intersection
iter_cube_intersection(d, position, radius) ==
    all_cube_tuples(d, cube_keys(calc_geom_key(d, position), bounding_cube_blocks(d, radius)))

\* x*x + y*y + z*z of the difference of two positions
dist2(p1, p2) ==
    (p1[1] - p2[1]) * (p1[1] - p2[1]) + (p1[2] - p2[2]) * (p1[2] - p2[2])
        + (p1[3] - p2[3]) * (p1[3] - p2[3])

\* math.sqrt(d2) <= radius
sqrt_le(d2, radius) == radius >= 0 /\ d2 <= radius * radius

\* XYZDict.iter_sphere_intersection
iter_sphere_intersection(d, position, radius) ==
    SelectSeq(iter_cube_intersection(d, position, radius),
              LAMBDA t : sqrt_le(dist2(t.position, position), radius))

\* the test of iter_contact_distance, were no item ever taken as visited
contact_visited_never(visited, item) == FALSE

\* visited.has_key(item)
contact_visited(visited, item) == item \in visited

\* the inner loop of iter_contact_distance for geom_tuple1: what it yields
contact_pairs(d, geom_tuple1, distance, visited) ==
    LET near == SelectSeq(iter_cube_intersection(d, geom_tuple1.position, distance),
                    LAMBDA geom_tuple2 :
                        /\ ~contact_visited(visited, geom_tuple2.item)
                        /\ sqrt_le(dist2(geom_tuple1.position, geom_tuple2.position),
                                   distance))
    IN  [n \in 1..Len(near) |->
            [t1 |-> geom_tuple1, t2 |-> near[n],
             d2 |-> dist2(geom_tuple1.position, near[n].position)]]

\* the outer loop of iter_contact_distance, from the n-th tuple of iter_all on
RECURSIVE contact_from(_, _, _, _, _)
contact_from(d, all, n, distance, visited) ==
    IF n > Len(all) THEN <<>>
    ELSE contact_pairs(d, all[n], distance, visited \cup {all[n].item})
         \o contact_from(d, all, n + 1, distance, visited \cup {all[n].item})

\* XYZDict.iter_contact_distance; d2 is the square of the distance it yields
iter_contact_distance(d, distance, keys) ==
    contact_from(d, iter_all(d, keys), 1, distance, {})

-----------------------------------------------------------------------------
(* An XYZDict: add, iter_sphere_intersection, iter_contact_distance *)

MaxItems == 3

Resolutions == {2, 3}
Radii == {0, 1, 3}
Positions == {<<0, 0, 0>>, <<1, 0, 0>>, <<2, 0, 0>>, <<-1, 0, 0>>,
              <<-3, -1, 1>>, <<0, -2, 2>>}

Yield(op, position, radius, out) ==
    [op |-> op, position |-> position, radius |-> radius, out |-> out]

NoYield == Yield("", <<>>, 0, <<>>)

\* the orders in which the dict may hand out its keys
KeyOrders(d) ==
    {keys \in [1..Cardinality(DOMAIN d.geom_dict) -> DOMAIN d.geom_dict] :
        \A j, k \in DOMAIN keys : keys[j] = keys[k] => j = k}

InitGeom ==
    /\ StructIdle
    /\ CifIdle
    /\ LoadIdle
    /\ \E resolution \in Resolutions, floats \in BOOLEAN :
           xyzdict = XYZDict(resolution, floats)
    /\ yielded = NoYield
    /\ points = <<>>

\* xyzdict.add(position, item) with an item that was not added before
GeomAdd ==
    \E position \in Positions :
        /\ Len(points) < MaxItems
        /\ xyzdict' = XYZDict_add(xyzdict, position, Len(points) + 1)
        /\ points' = Append(points, geom_tuple(position, Len(points) + 1))
        /\ yielded' = NoYield
        /\ UNCHANGED <<struct_vars, cif_vars, load_vars>>

\* The iterations leave the dict as it is, so that a second one yields what
\* the first did: they are made once for every content of the dict.

\* list(xyzdict.iter_sphere_intersection(position, radius))
GeomSphere ==
    \E position \in Positions, radius \in Radii :
        /\ yielded = NoYield
        /\ yielded' = Yield("iter_sphere_intersection", position, radius,
                            iter_sphere_intersection(xyzdict, position, radius))
        /\ UNCHANGED <<struct_vars, cif_vars, load_vars, xyzdict, points>>

\* list(xyzdict.iter_contact_distance(distance))
GeomContact ==
    \E distance \in Radii, keys \in KeyOrders(xyzdict) :
        /\ yielded = NoYield
        /\ yielded' = Yield("iter_contact_distance", <<>>, distance,
                            iter_contact_distance(xyzdict, distance, keys))
        /\ UNCHANGED <<struct_vars, cif_vars, load_vars, xyzdict, points>>

NextGeom ==
    \/ GeomAdd
    \/ GeomSphere
    \/ GeomContact

SpecGeom == InitGeom /\ [][NextGeom]_vars

-----------------------------------------------------------------------------
(* Claims about the XYZDict *)

\* the square of the Euclidean distance of two positions
SquaredDistance(p, q) ==
    LET sq(x) == x * x
    IN  sq(q[1] - p[1]) + sq(q[2] - p[2]) + sq(q[3] - p[3])

\* the distance of the positions is at most r, for an r >= 0
WithinDistance(p, q, r) == SquaredDistance(p, q) <= r * r

\* C19: for distinct items, each added once at any coordinates, and a
\* distance D >= 0, iter_contact_distance(D) yields every unordered pair of
\* distinct items at most D apart exactly once, in one orientation, with
\* their positions and distance, and yields no pair farther apart: what the
\* check of all pairs gives.
C19_ContactPairs ==
    (yielded.op = "iter_contact_distance")
    => /\ \A a, b \in 1..Len(points) :
             a < b =>
                 Cardinality({n \in 1..Len(yielded.out) :
                     {yielded.out[n].t1.item, yielded.out[n].t2.item} = {a, b}})
                 = IF WithinDistance(points[a].position, points[b].position, yielded.radius)
                   THEN 1 ELSE 0
       /\ \A n \in 1..Len(yielded.out) :
             /\ yielded.out[n].t1.item # yielded.out[n].t2.item
             /\ Count(points, yielded.out[n].t1) = 1
             /\ Count(points, yielded.out[n].t2) = 1
             /\ yielded.out[n].d2 = SquaredDistance(yielded.out[n].t1.position,
                                                    yielded.out[n].t2.position)

\* C19 witness: of three items two pairs are in contact, one of them with a
\* negative coordinate and across two cells, and the third pair is not
C19_Witness ==
    /\ yielded.op = "iter_contact_distance"
    /\ Len(points) = 3
    /\ Len(yielded.out) = 2
    /\ \E n \in 1..2 :
          /\ calc_geom_key(xyzdict, yielded.out[n].t1.position)
                 # calc_geom_key(xyzdict, yielded.out[n].t2.position)
          /\ \E j \in 1..3 : yielded.out[n].t1.position[j] < 0

-----------------------------------------------------------------------------
(* Structure.add_bonds_from_covalent_distance.  Coordinates and lengths are *)
(* whole hundredths of an Angstrom: the cell of 2.0 is 200, the contact     *)
(* distance of 2.5 is 250 and the tolerance of 0.54 is 54.                  *)

\* Library.library_get_element_desc: the description of the element, none
\* saying that it is None (an unknown element)
library_get_element_desc(element) ==
    IF element = "C" THEN [none |-> FALSE, covalent_radius |-> 77]
    ELSE IF element = "S" THEN [none |-> FALSE, covalent_radius |-> 102]
    ELSE [none |-> TRUE, covalent_radius |-> 0]

\* Bond.__init__; id stands for the identity of the object
Bond(id, atom1, atom2, standard_res_bond) ==
    [id |-> id, atom1 |-> atom1, atom2 |-> atom2,
     standard_res_bond |-> standard_res_bond]

\* get_bond, were it to look at bond.atom1 only
Atom_get_bond_atom1_only(atms, self, atom) ==
    LET found == SelectSeq(atms[self].bond_list, LAMBDA bond : atom = bond.atom1)
    IN  IF found = <<>> THEN <<>> ELSE <<Head(found)>>

\* Atom.get_bond: the first Bond of bond_list that has atom at an end, in a
\* list of its own, or <<>> for None.  Atoms are compared by identity.
Atom_get_bond(atms, self, atom) ==
    LET found == SelectSeq(atms[self].bond_list,
                           LAMBDA bond : atom = bond.atom1 \/ atom = bond.atom2)
    IN  IF found = <<>> THEN <<>> ELSE <<Head(found)>>

\* Atom.create_bond: the atoms with the new Bond in both bond lists, or the
\* failure of the assertion on the labels
Atom_create_bond(atms, self, atom, standard_res_bond) ==
    LET ids == UNION {{atms[a].bond_list[n].id : n \in DOMAIN atms[a].bond_list} :
                         a \in DOMAIN atms}
        bond == Bond(Cardinality(ids) + 1, self, atom, standard_res_bond)
    IN  IF ~ \/ atms[self].alt_loc = atms[atom].alt_loc
             \/ atms[self].alt_loc = "" /\ atms[atom].alt_loc # ""
             \/ atms[self].alt_loc # "" /\ atms[atom].alt_loc = ""
        THEN [atoms |-> atms, err |-> "AssertionError"]
        ELSE [atoms |-> [atms EXCEPT ![self].bond_list = Append(@, bond),
                                     ![atom].bond_list = Append(@, bond)],
              err |-> ""]

\* add_bonds_from_covalent_distance, were it to take every pair in contact
\* of known elements whatever their labels
add_bonds_any_labels(atms, atm1, atm2) == TRUE

\* the test on the labels of a pair iter_contact_distance yields
add_bonds_labels(atms, atm1, atm2) ==
    \/ atms[atm1].alt_loc = "" \/ atms[atm2].alt_loc = ""
    \/ atms[atm1].alt_loc = atms[atm2].alt_loc

\* Structure.add_bonds_from_covalent_distance.  rank is the order in which
\* a dict hands out the cell keys it holds.
Structure_add_bonds_from_covalent_distance(W, rank) ==
    LET \* model.iter_all_atoms()
        RECURSIVE atoms_of(_, _)
        atoms_of(fl, i) ==
            IF i > Len(fl) THEN <<>>
            ELSE Fragment_iter_all_atoms(W.frags[fl[i]]) \o atoms_of(fl, i + 1)
        Model_iter_all_atoms(m) == atoms_of(fragments_of(W, W.models[m].chain_list, 1), 1)
        \* the loop that fills the xyzdict
        RECURSIVE fill(_, _, _)
        fill(d, all, i) ==
            IF i > Len(all) THEN d
            ELSE fill(IF W.atoms[all[i]].position # <<>>
                      THEN XYZDict_add(d, W.atoms[all[i]].position, all[i])
                      ELSE d, all, i + 1)
        \* the loop over the pairs in contact, from the n-th pair on
        RECURSIVE pairs_from(_, _, _)
        pairs_from(r, pairs, n) ==
            IF n > Len(pairs) \/ r.err # "" THEN r
            ELSE LET atm1 == pairs[n].t1.item
                     atm2 == pairs[n].t2.item
                     edesc1 == library_get_element_desc(r.atoms[atm1].element)
                     edesc2 == library_get_element_desc(r.atoms[atm2].element)
                     bond_dist == edesc1.covalent_radius + edesc2.covalent_radius + 54
                 IN  pairs_from(
                        IF ~add_bonds_labels(r.atoms, atm1, atm2) THEN r
                        ELSE IF edesc1.none \/ edesc2.none THEN r
                        ELSE IF pairs[n].d2 > bond_dist * bond_dist THEN r
                        ELSE IF atm1 = atm2 THEN [r EXCEPT !.err = "AssertionError"]
                        ELSE IF Atom_get_bond(r.atoms, atm1, atm2) = <<>>
                             THEN Atom_create_bond(r.atoms, atm1, atm2, FALSE)
                             ELSE r,
                        pairs, n + 1)
        \* the loop over the models, from the i-th model on
        RECURSIVE models_from(_, _)
        models_from(r, i) ==
            IF i > Len(W.structure.model_list) \/ r.err # "" THEN r
            ELSE LET xyzd == fill(XYZDict(200, TRUE),
                                  Model_iter_all_atoms(W.structure.model_list[i]), 1)
                     keys == SelectSeq(rank, LAMBDA k : has_key(xyzd.geom_dict, k))
                 IN  models_from(pairs_from(r, iter_contact_distance(xyzd, 250, keys), 1),
                                 i + 1)
        r == models_from([atoms |-> W.atoms, err |-> ""], 1)
    IN  [W |-> [W EXCEPT !.atoms = r.atoms], err |-> r.err]

-----------------------------------------------------------------------------
(* A Structure of positioned atoms: add_atom, add_bonds_from_covalent_distance *)

MaxBondAtoms == 3

\* the element and position of the atoms added to Model 1 under every name
\* and label
Placements == {<<"C", <<0, 0, 0>>>>, <<"C", <<208, 0, 0>>>>, <<"C", <<209, 0, 0>>>>,
               <<"S", <<0, 0, 0>>>>, <<"S", <<258, 0, 0>>>>}

BondAltLocs == {"", "A"}

\* Atom(name, alt_loc, element, position, ...) of the one fragment of a Model
PlacedAtom(model_id, name, alt_loc, element, position) ==
    [Atom(name, alt_loc, "GLY", <<"5">>, "A", model_id)
        EXCEPT !.element = element, !.position = position]

\* the atoms added: those of Model 1, one of an unknown element, one
\* without a position, and those of Model 2
BondAtoms ==
    {PlacedAtom(1, name, alt_loc, placement[1], placement[2]) :
        name \in AtomNames, alt_loc \in BondAltLocs, placement \in Placements}
    \cup {PlacedAtom(1, "N", "", "", <<0, 0, 0>>), PlacedAtom(1, "N", "", "C", <<>>)}
    \cup {PlacedAtom(2, "N", "", "C", <<0, 0, 0>>), PlacedAtom(2, "CA", "", "C", <<208, 0, 0>>)}

\* the orders in which a dict may hand out the cell keys of the atoms
CellRanks ==
    LET cells == {calc_geom_key(XYZDict(200, TRUE), atoms[a].position) :
                     a \in {b \in DOMAIN atoms : atoms[b].position # <<>>}}
    IN  {rank \in [1..Cardinality(cells) -> cells] :
            \A j, k \in DOMAIN rank : rank[j] = rank[k] => j = k}

\* structure.add_atom(Atom(..., element, position)) with a new Atom
BondAddAtom ==
    \E atom \in BondAtoms :
        /\ Len(atoms) < MaxBondAtoms
        /\ DoStructAddAtom(atom, FALSE)
        /\ UNCHANGED <<cif_vars, load_vars, geom_vars>>

\* structure.add_bonds_from_covalent_distance(), once and once more; obj
\* counts the calls made since the structure was changed
BondInfer ==
    LET runs == IF last.op = "add_bonds_from_covalent_distance" THEN last.obj ELSE 0
    IN  /\ runs < 2
        /\ \E rank \in CellRanks :
               \E r \in {Structure_add_bonds_from_covalent_distance(World, rank)} :
                   /\ SetWorld(r.W)
                   /\ last' = Call("add_bonds_from_covalent_distance", None, "",
                                   runs + 1, r.err)
        /\ UNCHANGED <<cif_vars, load_vars, geom_vars>>

NextBonds ==
    \/ BondAddAtom
    \/ BondInfer

SpecBonds == InitStruct /\ [][NextBonds]_vars

-----------------------------------------------------------------------------
(* Claims about the bonds *)

\* a Bond of a's bond_list joins a and b
Bonded(a, b) ==
    \E n \in DOMAIN atoms[a].bond_list :
        {atoms[a].bond_list[n].atom1, atoms[a].bond_list[n].atom2} = {a, b}

\* two atoms of one Model of the structure, both with a position
PositionedPair(a, b) ==
    /\ a # b
    /\ atoms[a].fragment # None /\ atoms[b].fragment # None
    /\ atoms[a].model_id = atoms[b].model_id
    /\ atoms[a].position # <<>> /\ atoms[b].position # <<>>

\* the covalent radius of a known element
Radius(element) == library_get_element_desc(element).covalent_radius
KnownElement(element) == ~library_get_element_desc(element).none

\* C21: after add_bonds_from_covalent_distance two positioned atoms of one
\* Model with known elements of radii r1 and r2 and both labels empty are
\* bonded when their distance is at most r1 + r2 + 0.54, the boundary
\* included, and not bonded when it is larger.
C21_BondAtCovalentDistance ==
    (last.op = "add_bonds_from_covalent_distance")
    => \A a, b \in DOMAIN atoms :
          ( /\ PositionedPair(a, b)
            /\ KnownElement(atoms[a].element) /\ KnownElement(atoms[b].element)
            /\ atoms[a].alt_loc = "" /\ atoms[b].alt_loc = "" )
          => ( Bonded(a, b)
               <=> WithinDistance(atoms[a].position, atoms[b].position,
                       Radius(atoms[a].element) + Radius(atoms[b].element) + 54) )

\* the Model that holds the atom
ModelOf(a) == chains[frags[atoms[a].fragment].chain].model

\* two positioned atoms of known elements near enough for a bond: within
\* the contact distance and within the sum of the radii and the tolerance
BondingDistance(a, b) ==
    /\ a # b
    /\ atoms[a].position # <<>> /\ atoms[b].position # <<>>
    /\ KnownElement(atoms[a].element) /\ KnownElement(atoms[b].element)
    /\ WithinDistance(atoms[a].position, atoms[b].position, 250)
    /\ WithinDistance(atoms[a].position, atoms[b].position,
                      Radius(atoms[a].element) + Radius(atoms[b].element) + 54)

\* C22: add_bonds_from_covalent_distance raises nothing, and every Bond it
\* creates joins two atoms of one Model whose labels are both empty, one
\* empty, or identical: never two different non-empty labels, never two
\* Models.
C22_BondsOnlyBetweenCompatibleAtoms ==
    [][ (last'.op = "add_bonds_from_covalent_distance")
        => /\ last'.err = ""
           /\ \A a \in DOMAIN atoms : \A n \in DOMAIN atoms'[a].bond_list :
                 n > Len(atoms[a].bond_list)
                 => LET bond == atoms'[a].bond_list[n]
                    IN  /\ a \in {bond.atom1, bond.atom2}
                        /\ ModelOf(bond.atom1) = ModelOf(bond.atom2)
                        /\ \/ atoms[bond.atom1].alt_loc = ""
                           \/ atoms[bond.atom2].alt_loc = ""
                           \/ atoms[bond.atom1].alt_loc = atoms[bond.atom2].alt_loc ]_vars

\* C22 witness: after the call two atoms of one Model at bonding distance
\* with the labels A and B are not bonded, nor are two at bonding distance
\* in two Models
C22_Witness ==
    /\ last.op = "add_bonds_from_covalent_distance"
    /\ \E a, b \in DOMAIN atoms :
          /\ BondingDistance(a, b) /\ ModelOf(a) = ModelOf(b)
          /\ atoms[a].alt_loc = "A" /\ atoms[b].alt_loc = "B"
          /\ ~Bonded(a, b)
    /\ \E a, b \in DOMAIN atoms :
          /\ BondingDistance(a, b) /\ ModelOf(a) # ModelOf(b)
          /\ ~Bonded(a, b)

\* the Bonds of a's bond_list that join a and b, by their places in the list
BondsBetween(a, b) ==
    {n \in DOMAIN atoms[a].bond_list :
        {atoms[a].bond_list[n].atom1, atoms[a].bond_list[n].atom2} = {a, b}}

\* at most one Bond joins two atoms, and it is held once in each bond list
AtMostOneBond ==
    \A a \in DOMAIN atoms :
        /\ \A n \in DOMAIN atoms[a].bond_list :
              LET bond == atoms[a].bond_list[n]
              IN  /\ bond.atom1 # bond.atom2
                  /\ a \in {bond.atom1, bond.atom2}
                  /\ Count(atoms[bond.atom1].bond_list, bond) = 1
                  /\ Count(atoms[bond.atom2].bond_list, bond) = 1
        /\ \A b \in DOMAIN atoms : Cardinality(BondsBetween(a, b)) <= 1

\* C23: a second add_bonds_from_covalent_distance on the unchanged
\* structure creates no Bond, and after every call, whatever was added
\* between the calls, at most one Bond joins any two atoms and it is held
\* once in the bond list of each.
C23_BondInferenceIdempotent ==
    [][ (last'.op = "add_bonds_from_covalent_distance")
        => /\ AtMostOneBond'
           /\ (last.op = "add_bonds_from_covalent_distance") => (atoms' = atoms) ]_vars

\* C23 witness: the second of two calls in a row is made on three atoms
\* that two Bonds join
C23_Witness ==
    /\ last.op = "add_bonds_from_covalent_distance"
    /\ last.obj = 2
    /\ Len(atoms) = 3
    /\ \E a, b, c \in DOMAIN atoms :
          /\ a # c
          /\ Cardinality(BondsBetween(a, b)) = 1
          /\ Cardinality(BondsBetween(b, c)) = 1

-----------------------------------------------------------------------------
(* mmCIFTable.getOneRow on the tables of a file that is being built *)

\* mmCIFTable.getOneRow: the place in the row list of the row returned, or
\* the error raised.  The method reads self._row_list and self._name;
\* __init__ sets self.name, self.columns and self.__row_list, a name the
\* class body turns into _mmCIFTable__row_list, and the class has no
\* __getattr__.
mmCIFTable_getOneRow(table) ==
    LET attributes == {"name", "columns", "_mmCIFTable__row_list"}
    IN  IF "_row_list" \notin attributes THEN [row |-> None, err |-> "AttributeError"]
        ELSE IF Len(table.rows) # 1 THEN [row |-> None, err |-> "mmCIFError"]
        ELSE [row |-> 1, err |-> ""]

\* cif_table.getOneRow() on the last table; the file is left as it is
TableGetOneRow ==
    /\ last = NoCall
    /\ cif_file # <<>>
    /\ cif_file[LastData].tables # <<>>
    /\ LET r == mmCIFTable_getOneRow(cif_file[LastData].tables[LastTable])
       IN  last' = Call("getOneRow", None, "", r.row, r.err)
    /\ UNCHANGED <<structure, models, chains, frags, atoms, cif_vars, load_vars, geom_vars>>

NextTable ==
    \/ FileAddData
    \/ FileAddTable
    \/ FileAddColumn
    \/ FileAddRow
    \/ TableGetOneRow

SpecTable == InitFile /\ [][NextTable]_vars

\* C30: getOneRow returns the only row of a table that has exactly one row
\* and raises mmCIFError for a table of no row or of more than one.
C30_GetOneRow ==
    (last.op = "getOneRow")
    => IF Len(cif_file[LastData].tables[LastTable].rows) = 1
       THEN last.err = "" /\ last.obj = 1
       ELSE last.err = "mmCIFError"

-----------------------------------------------------------------------------
(* Parsing the assignments and loops of one data section *)

MaxTagLines == 4

\* a text that does not begin with data_x has up to MaxHeadLines lines
MaxHeadLines == 3

\* the lines that follow the first line, data_x
TagLines ==
    { <<"_", "t", ".", "c", " ", "a", "\n">>,                          \* _t.c a
      <<"_", "t", ".", "d", " ", "b", "\n">>,                          \* _t.d b
      <<"_", "t", ".", "c", "\n">>,                                    \* _t.c
      <<"_", "u", ".", "c", "\n">>,                                    \* _u.c
      loop_ \o <<" ", "_", "t", ".", "c", " ", "_", "t", ".", "d", "\n">>,  \* loop_ _t.c _t.d
      loop_ \o <<"\n">>,                                               \* loop_
      <<"a", " ", "'", "b", " ", "c", "'", "\n">>,                     \* a 'b c'
      <<"'", "_", "t", ".", "c", "'", "\n">>,                          \* '_t.c'
      data_ \o <<"y", "\n">>,                                          \* data_y
      save_ \o <<"x", "\n">>,                                          \* save_x
      <<"#", "\n">>,                                                   \* #
      <<";", "t", "\n">> }                                             \* ;t

InitTags ==
    /\ StructIdle
    /\ LoadIdle
    /\ GeomIdle
    /\ fil \in {File(<<data_x>>), File(<<>>)}
    /\ cife = mmCIFElementFile
    /\ parser = ParserIdle
    /\ cif_file = <<>>

\* a line is added to the text that will be parsed
TagsLine ==
    /\ parser.pc = "idle"
    /\ Len(fil.lines) < (IF fil.lines # <<>> /\ fil.lines[1] = data_x
                         THEN MaxTagLines + 1 ELSE MaxHeadLines)
    /\ \E line \in TagLines : fil' = File(Append(fil.lines, line))
    /\ UNCHANGED <<struct_vars, cife, parser, cif_file, load_vars, geom_vars>>

NextTags ==
    \/ TagsLine
    \/ ParseFileCall
    \/ ParseFileStep
    \/ ReadDataStep
    \/ ReadLoopColumnsStep
    \/ ReadLoopRowsStep

SpecTags == InitTags /\ [][NextTags]_vars

-----------------------------------------------------------------------------
(* Claims about assignments, loops and the lines of Syntax errors *)

\* the elements of the text from line pos + 1 on, each with the number of
\* the line it ends on
RECURSIVE TextElementsFrom(_, _)
TextElementsFrom(lines, pos) ==
    LET r == read_elements_from(lines, pos, 0, "read data", <<>>)
    IN  IF r.eof THEN <<>>
        ELSE [n \in 1..Len(r.elements) |-> [e |-> r.elements[n], line |-> r.pos]]
             \o TextElementsFrom(lines, r.pos)

TextElements == TextElementsFrom(fil.lines, 0)

\* the number of elements the parser has taken from the text: those of the
\* lines read that are not waiting in the tokenizer
TakenOf(E) ==
    Cardinality({n \in DOMAIN E : E[n].line <= fil.pos}) - Len(cife.elements)

Taken == TakenOf(TextElements)

\* a tag: a token that begins with "_"
TagToken(e) == e.t = "token" /\ StartsWith(e.s, <<"_">>)

\* a control marker token: a data_ section marker, a tag, or loop_
MarkerToken(e) ==
    e.t = "token" /\ (StartsWith(e.s, data_) \/ StartsWith(e.s, <<"_">>)
                          \/ StartsWith(e.s, loop_))

\* the section the parser is reading
CurrentData == parser.data_list[Len(parser.data_list)]

\* C24: in a single assignment the element after the tag is stored verbatim
\* as the value when it is a quoted string or an ordinary token, and the
\* parse fails with a Syntax error when it is a control marker token
\* (data_..., a tag, loop_).
C24_SingleValue ==
    [][ (parser.pc = "read_data")
        => \A E \in {TextElements} : \A c \in {TakenOf(E)} :
              LET tg == E[c + 1].e
                  val == E[c + 2].e
                  parts == tag_split(tg.s)
              IN  ( /\ c + 2 <= Len(E)
                    /\ TagToken(tg)
                    /\ parser'.err.msg # "redefined single column" )
                  => IF MarkerToken(val)
                     THEN /\ parser'.pc = "raised"
                          /\ parser'.err.kind = "mmCIF Syntax Error"
                     ELSE /\ parser'.pc = "read_data"
                          /\ LET data == CurrentData'
                                 table == data.tables[mmCIFData_getTable(data, parts[1])]
                             IN  /\ parts[2] \in DOMAIN table.rows[1]
                                 /\ table.rows[1][parts[2]] = val.s ]_vars

\* the column is declared for a table of that name in the section
Declared(data, tname, cname) ==
    \E j \in DOMAIN data.tables :
        data.tables[j].name = tname /\ cname \in Range(data.tables[j].columns)

\* C25: within a data section a single assignment that names a column
\* already declared for that table in the section, by a single assignment
\* or by a loop, fails with a Syntax error, and no value stored earlier is
\* overwritten.
C25_RedefinedColumn ==
    [][ (parser.pc = "read_data")
        => \A E \in {TextElements} : \A c \in {TakenOf(E)} :
              LET tg == E[c + 1].e
                  parts == tag_split(tg.s)
              IN  ( /\ c + 1 <= Len(E)
                    /\ TagToken(tg)
                    /\ Declared(CurrentData, parts[1], parts[2]) )
                  => /\ parser'.pc = "raised"
                     /\ parser'.err.kind = "mmCIF Syntax Error"
                     /\ parser'.data_list = parser.data_list ]_vars

\* a control marker token, a token that begins with save_ counted as one
\* when save says so
MarkerOrSaveToken(e, save) ==
    MarkerToken(e) \/ (save /\ e.t = "token" /\ StartsWith(e.s, save_))

\* the number of elements after the c0-th that are values: those before the
\* first control marker token or the end of the input
ValueRun(E, c0, save) ==
    LET ends(i) == c0 + i + 1 > Len(E) \/ MarkerOrSaveToken(E[c0 + i + 1].e, save)
    IN  CHOOSE i \in 0..Len(E) : ends(i) /\ \A j \in 0..(i - 1) : ~ends(j)

\* What a pass of read_loop's second loop does for a loop as the claim has
\* it.  E are the elements of the text; the table being filled has k
\* columns and r rows, so the declaration ended with the c0-th element and
\* m values follow it.  The step reads row r + 1 of the n = m / k rows.
LoopRowStep(E, save, distinct) ==
    \A table \in {LoopTable} : \A c0 \in {TakenOf(E) - Len(table.rows) * Len(table.columns)} :
    \A m \in {ValueRun(E, c0, save)} :
    LET k == Len(table.columns)
        r == Len(table.rows)
    IN  ( /\ k >= 1
          /\ m >= k /\ m % k = 0
          /\ r < m \div k
          /\ distinct => \A i, j \in 1..k : table.columns[i] = table.columns[j] => i = j )
        => /\ parser'.pc # "raised"
           /\ Len(CurrentData'.tables) = Len(CurrentData.tables)
           \* the k columns in declared order, after loop_
           /\ StartsWith(E[c0 - k].e.s, loop_)
           /\ \A j \in 1..k :
                 /\ TagToken(E[c0 - k + j].e)
                 /\ tag_split(E[c0 - k + j].e.s) = <<table.name, table.columns[j]>>
           /\ LoopTable'.columns = table.columns
           \* one more row, the j-th column mapped to the j-th value of the row
           /\ Len(LoopTable'.rows) = r + 1
           /\ SubSeq(LoopTable'.rows, 1, r) = table.rows
           /\ DOMAIN LoopTable'.rows[r + 1] = Range(table.columns)
           /\ \A j \in 1..k : LoopTable'.rows[r + 1][table.columns[j]] = E[c0 + r * k + j].e.s
           \* after the last row the marker is left for read_data
           /\ IF r + 1 < m \div k THEN parser'.pc = "read_loop_rows"
              ELSE IF c0 + m = Len(E) THEN parser'.pc = "returned"
              ELSE /\ parser'.pc = "read_data"
                   /\ cife'.elements # <<>>
                   /\ Head(cife'.elements) = E[c0 + m + 1].e
                   /\ TakenOf(E)' = c0 + m

\* C26: a loop that declares k >= 1 columns of one table, followed by n*k
\* value elements (n >= 1, none a control marker token) and then a control
\* marker token or the end of the input, gives one table with the k columns
\* in declared order and n rows in input order, row i mapping the j-th
\* column to value i*k+j, and the marker is left for the section loop.
C26_LoopRows ==
    [][ (parser.pc = "read_loop_rows")
        => \A E \in {TextElements} : LoopRowStep(E, FALSE, FALSE) ]_vars

\* C26 as amended: the k columns have distinct names, and a token that
\* begins with save_ is a control marker too.
C26_LoopRowsDistinct ==
    [][ (parser.pc = "read_loop_rows")
        => \A E \in {TextElements} : LoopRowStep(E, TRUE, TRUE) ]_vars

\* C26 witness: a loop of two columns has read its two rows and left the
\* control marker token that follows them in the tokenizer
C26_Witness ==
    /\ parser.pc = "read_data"
    /\ parser.cname_list # <<>>
    /\ CurrentData.tables # <<>>
    /\ Len(LoopTable.columns) = 2
    /\ LoopTable.columns = parser.cname_list
    /\ Len(LoopTable.rows) = 2
    /\ cife.elements # <<>>
    /\ MarkerToken(Head(cife.elements))

\* the number of the line on which the n-th element of the text ends: the
\* first L such that the first L lines alone hold n elements
EndLine(lines, n) ==
    CHOOSE L \in 1..Len(lines) :
        /\ Len(TextElementsFrom(SubSeq(lines, 1, L), 0)) >= n
        /\ \A K \in 1..(L - 1) : Len(TextElementsFrom(SubSeq(lines, 1, K), 0)) < n

\* the Syntax errors raised for an element, not for the end of the input
ElementErrors ==
    {"unexpected element", "bad element", "redefined single column",
     "section in loop do not match", "expected data got section"}

ElementErrorRaised ==
    /\ parser.pc = "raised"
    /\ parser.err.kind = "mmCIF Syntax Error"
    /\ parser.err.msg \in ElementErrors

\* C27: a Syntax error raised for an offending element (unexpected element,
\* column redefinition, mismatched table name in a loop declaration, control
\* marker where a value is expected) reports the 1-based number of the line
\* on which that element, the last one the parser took, ends, also after a
\* look-ahead or a push-back.
C27_ErrorLine ==
    ElementErrorRaised
    => \A c \in {Taken} : /\ c >= 1
                          /\ parser.err.line = EndLine(fil.lines, c)

\* C27 witness: after a comment line and a loop whose rows ended at a peek,
\* the element peeked at is taken and a Syntax error raised for it
C27_Witness ==
    /\ ElementErrorRaised
    /\ parser.cname_list # <<>>
    /\ CurrentData.tables # <<>>
    /\ LoopTable.rows # <<>>
    /\ \E n \in DOMAIN fil.lines : fil.lines[n][1] = "#"
    /\ parser.err.line = Len(fil.lines)

-----------------------------------------------------------------------------
(* An XYZDict with add and remove; points is the list of the tuples added.  *)

MaxAdds == 3

XYZItems == {1, 2}

\* the last call: its arguments, the error it raised and, for add, the dict
\* before it
XYZCall(op, position, item, err, before) ==
    [op |-> op, position |-> position, item |-> item, err |-> err, before |-> before]

InitXYZ ==
    /\ StructIdle
    /\ CifIdle
    /\ LoadIdle
    /\ \E resolution \in Resolutions, floats \in BOOLEAN :
           xyzdict = XYZDict(resolution, floats)
    /\ yielded = XYZCall("", <<>>, 0, "", <<>>)
    /\ points = <<>>

\* xyzdict.add(position, item)
XYZAdd ==
    \E position \in Positions, item \in XYZItems :
        /\ Len(points) < MaxAdds
        /\ xyzdict' = XYZDict_add(xyzdict, position, item)
        /\ points' = Append(points, geom_tuple(position, item))
        /\ yielded' = XYZCall("add", position, item, "", xyzdict)
        /\ UNCHANGED <<struct_vars, cif_vars, load_vars>>

\* xyzdict.remove(position, item)
XYZRemove ==
    \E position \in Positions, item \in XYZItems :
    \E r \in {XYZDict_remove(xyzdict, position, item)} :
        /\ xyzdict' = r.d
        /\ yielded' = XYZCall("remove", position, item, r.err, <<>>)
        /\ UNCHANGED <<struct_vars, cif_vars, load_vars, points>>

NextXYZ ==
    \/ XYZAdd
    \/ XYZRemove

SpecXYZ == InitXYZ /\ [][NextXYZ]_vars

\* what iter_all yields from the dict d, in one of the orders of its keys
AllEntries(d) == iter_all(d, CHOOSE keys \in KeyOrders(d) : TRUE)

\* the same entries, each as many times
SameEntries(s1, s2) ==
    \A t \in Range(s1) \cup Range(s2) : Count(s1, t) = Count(s2, t)

\* C28: XYZDict.remove(position, item) for an item that was never added
\* raises ValueError and leaves the contents unchanged, and add(position,
\* item) followed by remove(position, item) leaves iter_all yielding the
\* entries it yielded before the add.
C28_RemoveUndoesAdd ==
    [][ /\ ( /\ yielded'.op = "remove"
             /\ \A n \in DOMAIN points : points[n].item # yielded'.item )
           => /\ yielded'.err = "ValueError"
              /\ xyzdict' = xyzdict
        /\ ( /\ yielded.op = "add"
             /\ yielded'.op = "remove"
             /\ yielded'.position = yielded.position
             /\ yielded'.item = yielded.item )
           => /\ yielded'.err = ""
              /\ SameEntries(AllEntries(xyzdict'), AllEntries(yielded.before)) ]_vars

-----------------------------------------------------------------------------
(* Structure.py: set_model_id, set_chain_id, set_fragment_id *)

\* Fragment.set_model_id / set_chain_id and the assignments of
\* Fragment.set_fragment_id for the Fragments fs: the field of each Fragment
\* and, for the atoms of its atom_list, of every alt_loc version of the atom
\* (Atom.set_model_id / set_chain_id / set_fragment_id over iter_alt_loc)
Fragment_set_ids(W, fs, field, id) ==
    LET versions(a) ==
            IF W.atoms[a].altloc = None THEN {a}
            ELSE LET altloc == W.frags[W.atoms[a].fragment].alt_loc_dict[W.atoms[a].name]
                 IN  {altloc[k] : k \in DOMAIN altloc}
        as == UNION {versions(a) : a \in UNION {Range(W.frags[f].atom_list) : f \in fs}}
        set(r) == IF field = "model_id" THEN [r EXCEPT !.model_id = id]
                  ELSE IF field = "chain_id" THEN [r EXCEPT !.chain_id = id]
                  ELSE [r EXCEPT !.fragment_id = id]
    IN  [W EXCEPT !.frags = [f \in DOMAIN @ |-> IF f \in fs THEN set(@[f]) ELSE @[f]],
                  !.atoms = [a \in DOMAIN @ |-> IF a \in as THEN set(@[a]) ELSE @[a]]]

\* Model.set_model_id
Model_set_model_id(W, m, model_id) ==
    LET structure_ == W.models[m].structure
        chk_model == IF has_key(W.structure.model_dict, model_id)
                     THEN W.structure.model_dict[model_id] ELSE None
        cs == Range(W.models[m].chain_list)
        W1 == [W EXCEPT !.models[m].model_id = model_id,
                        !.chains = [c \in DOMAIN @ |->
                                       IF c \in cs THEN [@[c] EXCEPT !.model_id = model_id]
                                       ELSE @[c]]]
        W2 == Fragment_set_ids(W1, UNION {Range(W.chains[c].fragment_list) : c \in cs},
                               "model_id", model_id)
    IN  IF structure_ # None /\ (chk_model # None \/ chk_model # m)
        THEN Raise(W, "ModelOverwrite")
        ELSE IF structure_ # None
        THEN Ok([W2 EXCEPT !.structure.model_list = ListSort(@, Model_lt(W2))])
        ELSE Ok(W2)

\* Chain.set_chain_id, with Segment.set_chain_id
Chain_set_chain_id(W, c, chain_id) ==
    LET model == W.chains[c].model
        chk_chain == IF has_key(W.models[model].chain_dict, chain_id)
                     THEN W.models[model].chain_dict[chain_id] ELSE None
        W1 == Fragment_set_ids([W EXCEPT !.chains[c].chain_id = chain_id],
                               Range(W.chains[c].fragment_list), "chain_id", chain_id)
    IN  IF model # None /\ (chk_chain # None \/ chk_chain # c)
        THEN Raise(W, "ChainOverwrite")
        ELSE IF model # None
        THEN Ok([W1 EXCEPT !.models[model].chain_list = ListSort(@, Segment_lt(W1))])
        ELSE Ok(W1)

\* Fragment.set_fragment_id
Fragment_set_fragment_id(W, f, fragment_id) ==
    LET chain == W.frags[f].chain
        chk_frag == IF has_key(W.chains[chain].fragment_dict, fragment_id)
                    THEN W.chains[chain].fragment_dict[fragment_id] ELSE None
        W1 == Fragment_set_ids(W, {f}, "fragment_id", fragment_id)
    IN  IF chain # None /\ (chk_frag # None \/ chk_frag # f)
        THEN Raise(W, "FragmentOverwrite")
        ELSE IF chain # None
        THEN Ok(Segment_sort(W1, chain))
        ELSE Ok(W1)

-----------------------------------------------------------------------------
(* Children added one at a time, and their ids changed *)

\* a call that sets the id of obj, a child of parent (None when it has none)
SetIdCall(op, parent, obj, id, err) ==
    [op |-> op, atom |-> None, alt_loc |-> "", obj |-> obj, err |-> err,
     parent |-> parent, id |-> id]

SetIdOps == {"set_model_id", "set_chain_id", "set_fragment_id"}

\* The ids are changed once the children are added, one call for each
\* behaviour: a call on an attached entity leaves everything as it was.
NoIdSet == last.op \notin SetIdOps

\* model.set_model_id(model_id)
SetModelId ==
    \E m \in 1..Len(models), model_id \in ModelIds :
    \E r \in {Model_set_model_id(World, m, model_id)} :
        /\ NoIdSet
        /\ SetWorld(r.W)
        /\ last' = SetIdCall("set_model_id", models[m].structure, m, model_id, r.err)
        /\ UNCHANGED <<cif_vars, load_vars, geom_vars>>

\* chain.set_chain_id(chain_id)
SetChainId ==
    \E c \in 1..Len(chains), chain_id \in ChainIds :
    \E r \in {Chain_set_chain_id(World, c, chain_id)} :
        /\ NoIdSet
        /\ SetWorld(r.W)
        /\ last' = SetIdCall("set_chain_id", chains[c].model, c, chain_id, r.err)
        /\ UNCHANGED <<cif_vars, load_vars, geom_vars>>

\* fragment.set_fragment_id(fragment_id)
SetFragmentId ==
    \E f \in 1..Len(frags), fragment_id \in FragmentIds :
    \E r \in {Fragment_set_fragment_id(World, f, fragment_id)} :
        /\ NoIdSet
        /\ SetWorld(r.W)
        /\ last' = SetIdCall("set_fragment_id", frags[f].chain, f, fragment_id, r.err)
        /\ UNCHANGED <<cif_vars, load_vars, geom_vars>>

NextSetIds ==
    \/ NoIdSet /\ ChildAddModel
    \/ NoIdSet /\ ChildAddChain
    \/ NoIdSet /\ ChildAddFragment
    \/ SetModelId
    \/ SetChainId
    \/ SetFragmentId

SpecSetIds == InitStruct /\ [][NextSetIds]_vars

\* the call just made set the id of an attached entity, and of its siblings,
\* the other members of the parent's list, none uses the id
FreeIdSet(op, siblings, ids) ==
    /\ last'.op = op
    /\ last'.parent # None
    /\ \A x \in Range(siblings) \ {last'.obj} : ids[x] # last'.id

\* C29: set_chain_id on a chain in a Model, set_model_id on a model in a
\* Structure and set_fragment_id on a fragment in a Chain raise nothing when
\* no sibling uses the new id, set the id on the entity and on what it
\* contains, and leave the parent finding the entity under the new id and
\* not under the old one.
C29_SetIdOfAttached ==
    [][ /\ FreeIdSet("set_model_id", structure.model_list,
                     [x \in DOMAIN models |-> models[x].model_id])
           => \A m \in {last'.obj} :
                 /\ last'.err = ""
                 /\ models'[m].model_id = last'.id
                 /\ \A c \in Range(models[m].chain_list) :
                       /\ chains'[c].model_id = last'.id
                       /\ \A f \in Range(chains[c].fragment_list) :
                             frags'[f].model_id = last'.id
                 /\ has_key(structure'.model_dict, last'.id)
                 /\ structure'.model_dict[last'.id] = m
                 /\ models[m].model_id # last'.id
                       => ~has_key(structure'.model_dict, models[m].model_id)
        /\ FreeIdSet("set_chain_id", models[last'.parent].chain_list,
                     [x \in DOMAIN chains |-> chains[x].chain_id])
           => \A c \in {last'.obj} : \A m \in {last'.parent} :
                 /\ last'.err = ""
                 /\ chains'[c].chain_id = last'.id
                 /\ \A f \in Range(chains[c].fragment_list) :
                       frags'[f].chain_id = last'.id
                 /\ has_key(models'[m].chain_dict, last'.id)
                 /\ models'[m].chain_dict[last'.id] = c
                 /\ chains[c].chain_id # last'.id
                       => ~has_key(models'[m].chain_dict, chains[c].chain_id)
        /\ FreeIdSet("set_fragment_id", chains[last'.parent].fragment_list,
                     [x \in DOMAIN frags |-> frags[x].fragment_id])
           => \A f \in {last'.obj} : \A c \in {last'.parent} :
                 /\ last'.err = ""
                 /\ frags'[f].fragment_id = last'.id
                 /\ has_key(chains'[c].fragment_dict, last'.id)
                 /\ chains'[c].fragment_dict[last'.id] = f
                 /\ frags[f].fragment_id # last'.id
                       => ~has_key(chains'[c].fragment_dict, frags[f].fragment_id)
      ]_vars

-----------------------------------------------------------------------------
(* mmCIF.py: mmCIFTable.selectRowList.  A row list is the list of the       *)
(* positions the rows have in the table.                                    *)

\* selectRowList, were it to keep every row that passes its first test
select_verify_first_only(row, nvlist, j) ==
    [add |-> TRUE, nv |-> nvlist[Len(nvlist)], err |-> ""]

\* "for (attr, val) in nvlist" from the j-th tuple on: whether the row is
\* added, and the tuple attr and val are left bound to
RECURSIVE select_verify(_, _, _)
select_verify(row, nvlist, j) ==
    IF j > Len(nvlist) THEN [add |-> TRUE, nv |-> nvlist[Len(nvlist)], err |-> ""]
    ELSE IF ~has_key(row, nvlist[j][1]) THEN [add |-> FALSE, nv |-> nvlist[j], err |-> "KeyError"]
    ELSE IF row[nvlist[j][1]] # nvlist[j][2] THEN [add |-> FALSE, nv |-> nvlist[j], err |-> ""]
    ELSE select_verify(row, nvlist, j + 1)

\* "for row in self" from the i-th row on, attr and val being bound to nv
RECURSIVE select_rows(_, _, _, _, _)
select_rows(table, nvlist, i, nv, row_list) ==
    IF i > Len(table.rows) THEN [row_list |-> row_list, err |-> ""]
    ELSE IF ~has_key(table.rows[i], nv[1]) THEN [row_list |-> <<>>, err |-> "KeyError"]
    ELSE IF table.rows[i][nv[1]] # nv[2] THEN select_rows(table, nvlist, i + 1, nv, row_list)
    ELSE Let(LAMBDA v : IF v.err # "" THEN [row_list |-> <<>>, err |-> v.err]
                        ELSE select_rows(table, nvlist, i + 1, v.nv,
                                         IF v.add THEN Append(row_list, i) ELSE row_list),
             select_verify(table.rows[i], nvlist, 1))

\* mmCIFTable.selectRowList(*nvlist)
mmCIFTable_selectRowList(table, nvlist) ==
    IF nvlist = <<>> THEN [row_list |-> <<>>, err |-> "IndexError"]
    ELSE select_rows(table, nvlist, 1, nvlist[1], <<>>)

-----------------------------------------------------------------------------
(* One table and a selectRowList call *)

MaxSelectRows == 3
MaxConstraints == 3

SelectValues == { <<"a">>, <<"b">> }

SelectCall(nvlist, row_list, err) ==
    [op |-> "selectRowList", atom |-> None, alt_loc |-> "", obj |-> None, err |-> err,
     nvlist |-> nvlist, row_list |-> row_list]

TheTable == cif_file[1].tables[1]

InitSelect ==
    /\ StructIdle
    /\ LoadIdle
    /\ GeomIdle
    /\ fil = File(<<>>)
    /\ cife = mmCIFElementFile
    /\ parser = ParserIdle
    /\ \E columns \in { <<<<"c">>>>, <<<<"c">>, <<"d">>>> } :
          cif_file = <<mmCIFData_addTable(mmCIFData(<<"x">>),
                                          mmCIFTable(<<"t">>, columns)).data>>

\* cif_table.addRow(row) for a row with a value for each column
SelectAddRow ==
    /\ last = NoCall
    /\ Len(TheTable.rows) < MaxSelectRows
    /\ \E row \in [Range(TheTable.columns) -> SelectValues] :
          cif_file' = [cif_file EXCEPT ![1].tables[1].rows = Append(@, row)]
    /\ UNCHANGED <<structure, models, chains, frags, atoms, last, fil, cife, parser, load_vars, geom_vars>>

\* cif_table.addRow(row) for a row that lacks a column of the table
SelectAddPartialRow ==
    /\ last = NoCall
    /\ Len(TheTable.rows) < MaxSelectRows
    /\ \E cols \in (SUBSET Range(TheTable.columns)) \ {Range(TheTable.columns)} :
       \E row \in [cols -> SelectValues] :
          cif_file' = [cif_file EXCEPT ![1].tables[1].rows = Append(@, row)]
    /\ UNCHANGED <<structure, models, chains, frags, atoms, last, fil, cife, parser, load_vars, geom_vars>>

\* the lists of one to MaxConstraints (column, value) tuples on the table's columns
Constraints ==
    UNION {[1..n -> Range(TheTable.columns) \X SelectValues] : n \in 1..MaxConstraints}

\* cif_table.selectRowList(*nvlist); the file is left as it is
TableSelect ==
    /\ last = NoCall
    /\ \E nvlist \in Constraints :
       \E r \in {mmCIFTable_selectRowList(TheTable, nvlist)} :
          last' = SelectCall(nvlist, r.row_list, r.err)
    /\ UNCHANGED <<structure, models, chains, frags, atoms, cif_vars, load_vars, geom_vars>>

NextSelect ==
    \/ SelectAddRow
    \/ SelectAddPartialRow
    \/ TableSelect

SpecSelect == InitSelect /\ [][NextSelect]_vars

\* the row holds the value for each constraint
Selected(row, nvlist) ==
    \A j \in DOMAIN nvlist : has_key(row, nvlist[j][1]) /\ row[nvlist[j][1]] = nvlist[j][2]

\* the constraints of nvlist in another order
Reordered(nvlist) ==
    {nv2 \in [DOMAIN nvlist -> Range(nvlist)] :
        \A t \in Range(nvlist) : Count(nv2, t) = Count(nvlist, t)}

\* what the claim says of the call made: the rows selected, each once, in
\* table order, the same for the constraints in any order, the table unchanged
SelectsTheRows ==
    /\ last'.err = ""
    /\ \A i \in DOMAIN TheTable.rows :
          Count(last'.row_list, i) = IF Selected(TheTable.rows[i], last'.nvlist) THEN 1 ELSE 0
    /\ \A j, k \in DOMAIN last'.row_list :
          j < k => last'.row_list[j] < last'.row_list[k]
    /\ \A nv2 \in Reordered(last'.nvlist) :
          mmCIFTable_selectRowList(TheTable, nv2) = [row_list |-> last'.row_list, err |-> ""]
    /\ cif_file' = cif_file

-----------------------------------------------------------------------------
(* Structure.py: the alpha helices, beta sheets and sites of a Model.  mods *)
(* is the heap of Models and anns that of the annotations.                  *)

\* AlphaHelix.__init__, BetaSheet.__init__, Site.__init__: the back-reference
AlphaHelix == [kind |-> "alpha_helix", model |-> None]
BetaSheet == [kind |-> "beta_sheet", model |-> None]
Site == [kind |-> "site", model |-> None]

AnnotResult(mods, anns, err) == [models |-> mods, annots |-> anns, err |-> err]

\* Model.add_alpha_helix
Model_add_alpha_helix(mods, anns, m, a) ==
    AnnotResult([mods EXCEPT ![m].alpha_helix_list = Append(@, a)],
                [anns EXCEPT ![a].model = m], "")

\* Model.remove_alpha_helix
Model_remove_alpha_helix(mods, anns, m, a) ==
    IF ListIndex(mods[m].alpha_helix_list, a) = 0
    THEN AnnotResult(mods, anns, "ValueError")
    ELSE AnnotResult([mods EXCEPT ![m].alpha_helix_list = ListRemove(@, a)],
                     [anns EXCEPT ![a].model = None], "")

\* Model.add_beta_sheet
Model_add_beta_sheet(mods, anns, m, a) ==
    AnnotResult([mods EXCEPT ![m].beta_sheet_list = Append(@, a)],
                [anns EXCEPT ![a].model = m], "")

\* Model.remove_beta_sheet
Model_remove_beta_sheet(mods, anns, m, a) ==
    IF ListIndex(mods[m].beta_sheet_list, a) = 0
    THEN AnnotResult(mods, anns, "ValueError")
    ELSE AnnotResult([mods EXCEPT ![m].beta_sheet_list = ListRemove(@, a)],
                     [anns EXCEPT ![a].model = None], "")

\* Model.add_site
Model_add_site(mods, anns, m, a) ==
    AnnotResult([mods EXCEPT ![m].site_list = Append(@, a)],
                [anns EXCEPT ![a].model = m], "")

\* Model.remove_site: self.site_list.append(site); site.model = None
Model_remove_site(mods, anns, m, a) ==
    AnnotResult([mods EXCEPT ![m].site_list = Append(@, a)],
                [anns EXCEPT ![a].model = None], "")

-----------------------------------------------------------------------------
(* Models with annotations added and removed *)

MaxAnnots == 3

AnnotCall(op, m, a, err) ==
    [op |-> op, atom |-> None, alt_loc |-> "", obj |-> a, err |-> err, parent |-> m]

\* one or two Models, Model(1) and Model(2), not in a Structure
InitAnnot ==
    /\ structure = Structure0
    /\ \E n \in 1..2 : models = [m \in 1..n |-> Model(m)]
    /\ chains = <<>>
    /\ frags = <<>>
    /\ atoms = <<>>
    /\ last = NoCall
    /\ CifIdle
    /\ LoadIdle
    /\ GeomIdle

SetAnnot(r, op, m, a) ==
    /\ models' = r.models
    /\ annots' = r.annots
    /\ last' = AnnotCall(op, m, a, r.err)
    /\ UNCHANGED <<structure, chains, frags, atoms, cif_vars, twin, geom_vars>>

\* model.add_alpha_helix(AlphaHelix()), add_beta_sheet, add_site
AnnotAdd ==
    \E m \in DOMAIN models :
        /\ Len(annots) < MaxAnnots
        /\ \/ SetAnnot(Model_add_alpha_helix(models, Append(annots, AlphaHelix), m,
                                             Len(annots) + 1),
                       "add_alpha_helix", m, Len(annots) + 1)
           \/ SetAnnot(Model_add_beta_sheet(models, Append(annots, BetaSheet), m,
                                            Len(annots) + 1),
                       "add_beta_sheet", m, Len(annots) + 1)
           \/ SetAnnot(Model_add_site(models, Append(annots, Site), m, Len(annots) + 1),
                       "add_site", m, Len(annots) + 1)

\* model.remove_alpha_helix(a), remove_beta_sheet(a), remove_site(a) for an
\* annotation of that kind, whether the model holds it or not
AnnotRemove ==
    \E m \in DOMAIN models, a \in DOMAIN annots :
        \/ /\ annots[a].kind = "alpha_helix"
           /\ SetAnnot(Model_remove_alpha_helix(models, annots, m, a),
                       "remove_alpha_helix", m, a)
        \/ /\ annots[a].kind = "beta_sheet"
           /\ SetAnnot(Model_remove_beta_sheet(models, annots, m, a),
                       "remove_beta_sheet", m, a)
        \/ /\ annots[a].kind = "site"
           /\ Len(models[m].site_list) < MaxAnnots + 1
           /\ SetAnnot(Model_remove_site(models, annots, m, a), "remove_site", m, a)

NextAnnot ==
    \/ AnnotAdd
    \/ AnnotRemove

SpecAnnot == InitAnnot /\ [][NextAnnot]_vars

\* the Model's collection of the annotation's kind: what iter_alpha_helicies,
\* iter_beta_sheets, iter_sites yield
AnnotList(mods, m, kind) ==
    IF kind = "alpha_helix" THEN mods[m].alpha_helix_list
    ELSE IF kind = "beta_sheet" THEN mods[m].beta_sheet_list
    ELSE mods[m].site_list

\* C32: removing an annotation (alpha helix, beta sheet, site) from the Model
\* it was added to leaves the Model's collection of that kind without it and
\* clears the annotation's model back-reference.
C32_RemoveAnnotation ==
    [][ \A m \in DOMAIN models, a \in DOMAIN annots :
          ( /\ last'.op \in {"remove_alpha_helix", "remove_beta_sheet", "remove_site"}
            /\ last'.parent = m /\ last'.obj = a
            /\ annots[a].model = m
            /\ Count(AnnotList(models, m, annots[a].kind), a) = 1 )
          => /\ last'.err = ""
             /\ Count(AnnotList(models', m, annots[a].kind), a) = 0
             /\ annots'[a].model = None ]_vars

-----------------------------------------------------------------------------
(* One line and the elements split finds in it *)

MaxSplitChars == 6

SplitChars == {"a", "'", "\"", "\\", " "}

\* the lines of one to MaxSplitChars characters, with their newline
SplitLines ==
    UNION {{l \o <<"\n">> : l \in [1..n -> SplitChars]} : n \in 1..MaxSplitChars}

InitSplit ==
    /\ StructIdle
    /\ LoadIdle
    /\ GeomIdle
    /\ fil = File(<<>>)
    /\ cife = mmCIFElementFile
    /\ parser = ParserIdle
    /\ cif_file = <<>>

\* the line is written
SplitWrite ==
    /\ fil.lines = <<>>
    /\ \E line \in SplitLines : fil' = File(<<line>>)
    /\ UNCHANGED <<struct_vars, cife, parser, cif_file, load_vars, geom_vars>>

\* self.elements += self.split(line)
SplitCall ==
    /\ fil.lines # <<>>
    /\ last = NoCall
    /\ cife' = [cife EXCEPT !.elements = @ \o split(fil.lines[1])]
    /\ last' = Call("split", None, "", None, "")
    /\ UNCHANGED <<structure, models, chains, frags, atoms, fil, parser, cif_file,
                   load_vars, geom_vars>>

NextSplit ==
    \/ SplitWrite
    \/ SplitCall

SpecSplit == InitSplit /\ [][NextSplit]_vars

\* the number of consecutive backslashes that end right before the k-th
\* character of the line
RECURSIVE BackslashesBefore(_, _)
BackslashesBefore(line, k) ==
    IF k > 1 /\ line[k - 1] = "\\" THEN 1 + BackslashesBefore(line, k - 1) ELSE 0

\* the k-th character is followed by whitespace or ends the line
BeforeWhitespace(line, k) == k = Len(line) \/ line[k + 1] \in whitespace

\* the places at which the string opened by the line's first character, a
\* quote, may end: the same quote character before whitespace, and, with
\* escapes, after an even number of backslashes
ClosingQuotes(line, escapes) ==
    {k \in 2..Len(line) : /\ line[k] = line[1]
                          /\ BeforeWhitespace(line, k)
                          /\ escapes => BackslashesBefore(line, k) % 2 = 0}

\* the line opens with a quoted string that is closed, and its first element
\* is that string up to the first closing quote
FirstStringEndsAtClosingQuote(line, escapes) ==
    (line[1] \in QUOTES /\ ClosingQuotes(line, escapes) # {})
    => \A k \in {CHOOSE c \in ClosingQuotes(line, escapes) :
                    \A d \in ClosingQuotes(line, escapes) : c <= d} :
          /\ cife.elements # <<>>
          /\ cife.elements[1] = Element(SubSeq(line, 2, k - 1), "string")

\* C33: a quoted string opened by a quote character ends only at the next
\* occurrence of that same quote character that is followed by whitespace or
\* the end of the line; a quote of the other kind, or one followed by a
\* non-whitespace character, is part of the string (lines without
\* backslashes).
C33_SameQuoteCloses ==
    (last.op = "split" /\ "\\" \notin Range(fil.lines[1]))
    => FirstStringEndsAtClosingQuote(fil.lines[1], FALSE)

\* C34: inside a quoted string a quote preceded by an odd number of
\* backslashes does not end the string, even before whitespace; one preceded
\* by an even number of them and followed by whitespace does (lines with one
\* kind of quote).
C34_EscapedQuote ==
    (last.op = "split" /\ Cardinality(Range(fil.lines[1]) \cap QUOTES) = 1)
    => FirstStringEndsAtClosingQuote(fil.lines[1], TRUE)

-----------------------------------------------------------------------------
(* A text and the elements the tokenizer hands out, one call after another *)

MaxBlockLines == 5

BlockLines ==
    { <<";", "t", " ", "\n">>,            \* ;t and a space
      <<";", "\n">>,                      \* ;
      <<"#", "c", "\n">>,                 \* #c
      <<"a", " ", "b", "\n">>,            \* a b
      <<" ", "x", "\n">>,                 \* x after a space
      <<"\n">> }                          \* an empty line

ElementCall(eof, e) ==
    [op |-> "getNextElement", atom |-> None, alt_loc |-> "", obj |-> None,
     err |-> IF eof THEN "EOFError" ELSE "", e |-> e]

\* a line is added to the text before the first call
BlockLine ==
    /\ last = NoCall
    /\ Len(fil.lines) < MaxBlockLines
    /\ \E line \in BlockLines : fil' = File(Append(fil.lines, line))
    /\ UNCHANGED <<struct_vars, cife, parser, cif_file, load_vars, geom_vars>>

\* cife.getNextElement(), until it raises EOFError
BlockGet ==
    /\ last.err = ""
    /\ \E g \in {getNextElement(fil, cife)} :
          /\ fil' = g.fil
          /\ cife' = g.cife
          /\ last' = ElementCall(g.eof, g.e)
    /\ UNCHANGED <<structure, models, chains, frags, atoms, parser, cif_file,
                   load_vars, geom_vars>>

NextBlock ==
    \/ BlockLine
    \/ BlockGet

SpecBlock == InitSplit /\ [][NextBlock]_vars

\* the lines a to b of the text, one after the other
RECURSIVE LinesText(_, _, _)
LinesText(lines, a, b) ==
    IF a > b THEN <<>> ELSE lines[a] \o LinesText(lines, a + 1, b)

\* a line that holds no element when data is read: a comment, or a line
\* of whitespace
NoElementLine(line) == line[1] = "#" \/ (line[1] # ";" /\ split(line) = <<>>)

\* What a call that has to read lines finds.  q is the first line after the
\* lines read that holds something; if it begins with ";" and r is the next
\* line that does, the call returns the one string of the block and leaves
\* no element behind; if q is an ordinary line the call returns its first
\* element, whatever comment lines came before it.
ReadsBlockOrLine(lines, pos) ==
    \A q \in {n \in (pos + 1)..Len(lines) :
                 /\ ~NoElementLine(lines[n])
                 /\ \A k \in (pos + 1)..(n - 1) : NoElementLine(lines[k])} :
       IF lines[q][1] = ";"
       THEN \A r \in {n \in (q + 1)..Len(lines) :
                         /\ lines[n][1] = ";"
                         /\ \A k \in (q + 1)..(n - 1) : lines[k][1] # ";"} :
               /\ last'.err = ""
               /\ last'.e = Element(rstrip(Tail(lines[q]) \o LinesText(lines, q + 1, r - 1)),
                                    "string")
               /\ cife'.elements = <<>>
               /\ fil'.pos = r
       ELSE /\ last'.err = ""
            /\ last'.e = split(lines[q])[1]
            /\ fil'.pos = q

\* C35: a line that begins with ";" while data is read opens a block that
\* yields exactly one string element when the next line beginning with ";"
\* is read: the rest of the opening line and all lines in between, verbatim
\* (lines beginning with "#" included, newlines kept), without its trailing
\* whitespace; outside a block a line beginning with "#" yields no element.
C35_SemicolonBlock ==
    [][ (last'.op = "getNextElement" /\ cife.elements = <<>>)
        => ReadsBlockOrLine(fil.lines, fil.pos) ]_vars

\* C35 witness: a block was returned whose text holds a line that begins
\* with "#" after a newline, a comment line having been skipped before it
C35_Witness ==
    /\ last.op = "getNextElement"
    /\ last.err = ""
    /\ last.e.t = "string"
    /\ \E n \in 1..(Len(last.e.s) - 1) : last.e.s[n] = "\n" /\ last.e.s[n + 1] = "#"
    /\ fil.lines[1][1] = "#"
    /\ last.e.s[Len(last.e.s)] \notin whitespace

-----------------------------------------------------------------------------
(* The cells of the grid *)

\* the largest whole number not above a / b, for b > 0
Floor(a, b) == a \div b

\* C36: calc_geom_key maps a position (x, y, z) to the cell (floor(x /
\* resolution), floor(y / resolution), floor(z / resolution)) for every
\* coordinate, negative as well as positive, so that all cells of the grid
\* have the same edge length: every entry is kept in the cell of the floors
\* of its coordinates.
C36_GeomKeyIsFloor ==
    \A geom_key \in DOMAIN xyzdict.geom_dict :
        \A n \in DOMAIN xyzdict.geom_dict[geom_key] :
            \A j \in 1..3 :
                geom_key[j] = Floor(xyzdict.geom_dict[geom_key][n].position[j],
                                    xyzdict.resolution)

-----------------------------------------------------------------------------
(* Structure.py: the removal of children, and the plain Segment *)

\* Model.remove_chain
Model_remove_chain(W, m, c) ==
    IF c \notin Range(W.models[m].chain_list) THEN Raise(W, "ValueError")
    ELSE LET W1 == [W EXCEPT !.models[m].chain_list = ListRemove(@, c)]
         IN  IF ~has_key(W1.models[m].chain_dict, W.chains[c].chain_id)
             THEN Raise(W1, "KeyError")
             ELSE Ok([W1 EXCEPT !.models[m].chain_dict = DictDel(@, W.chains[c].chain_id),
                                !.chains[c].model = None])

\* Segment.add_fragment: the Fragment gets no back-reference
Segment_add_fragment(W, c, fh, delay_sort) ==
    IF fragment_id_used(W.chains[c].fragment_dict, W.frags[fh].fragment_id)
    THEN Raise(W, "FragmentOverwrite")
    ELSE LET W1 == [W EXCEPT
                       !.chains = [@ EXCEPT
                           ![c].fragment_list = Append(@, fh),
                           ![c].fragment_dict = DictSet(@, W.frags[fh].fragment_id, fh)]]
         IN  Ok(IF delay_sort THEN W1 ELSE Segment_sort(W1, c))

\* Segment.remove_fragment
Segment_remove_fragment(W, c, fh) ==
    IF fh \notin Range(W.chains[c].fragment_list) THEN Raise(W, "ValueError")
    ELSE LET W1 == [W EXCEPT !.chains[c].fragment_list = ListRemove(@, fh)]
         IN  IF ~has_key(W1.chains[c].fragment_dict, W.frags[fh].fragment_id)
             THEN Raise(W1, "KeyError")
             ELSE Ok([W1 EXCEPT !.chains[c].fragment_dict =
                                    DictDel(@, W.frags[fh].fragment_id)])

\* Chain.remove_fragment
Chain_remove_fragment(W, c, fh) ==
    LET r == Segment_remove_fragment(W, c, fh)
    IN  IF r.err # "" THEN r
        ELSE Ok([r.W EXCEPT !.frags[fh].chain = None])

-----------------------------------------------------------------------------
(* Children added to and removed from a Structure, its Models and Chains  *)
(* and a plain Segment, and their ids changed.  A plain Segment is made   *)
(* as Segment(), with the chain_id "" that no Chain made here has.        *)

MaxHeldModels == 1
MaxHeldChains == 2
MaxHeldFrags == 2

Segments == {c \in 1..Len(chains) : chains[c].chain_id = ""}

\* Segment()
SegmentNew ==
    /\ Len(chains) < MaxHeldChains
    /\ chains' = Append(chains, Chain(1, ""))
    /\ last' = ChildCall("Segment", None, Len(chains) + 1, "")
    /\ UNCHANGED <<structure, models, frags, atoms, cif_vars, load_vars, geom_vars>>

\* segment.add_fragment(Fragment(1, "", fragment_id, res_name), delay_sort)
SegmentAddFragment ==
    \E c \in Segments, fragment_id \in FragmentIds, delay_sort \in BOOLEAN :
        /\ Len(frags) < MaxHeldFrags
        /\ LET fh == Len(frags) + 1
               r  == Segment_add_fragment(
                         [World EXCEPT !.frags = Append(@, Fragment(1, "", fragment_id, "GLY"))],
                         c, fh, delay_sort)
           IN  /\ SetWorld(r.W)
               /\ last' = ChildCall("add_fragment", c, fh, r.err)
        /\ UNCHANGED <<cif_vars, load_vars, geom_vars>>

\* structure.remove_model(model)
ChildRemoveModel ==
    \E m \in 1..Len(models) :
    \E r \in {Structure_remove_model(World, m)} :
        /\ SetWorld(r.W)
        /\ last' = ChildCall("remove_model", StructureRef, m, r.err)
        /\ UNCHANGED <<cif_vars, load_vars, geom_vars>>

\* model.remove_chain(chain)
ChildRemoveChain ==
    \E m \in 1..Len(models), c \in (1..Len(chains)) \ Segments :
    \E r \in {Model_remove_chain(World, m, c)} :
        /\ SetWorld(r.W)
        /\ last' = ChildCall("remove_chain", m, c, r.err)
        /\ UNCHANGED <<cif_vars, load_vars, geom_vars>>

\* chain.remove_fragment(fragment), segment.remove_fragment(fragment)
ChildRemoveFragment ==
    \E c \in 1..Len(chains), fh \in 1..Len(frags) :
    \E r \in {IF c \in Segments THEN Segment_remove_fragment(World, c, fh)
              ELSE Chain_remove_fragment(World, c, fh)} :
        /\ SetWorld(r.W)
        /\ last' = ChildCall("remove_fragment", c, fh, r.err)
        /\ UNCHANGED <<cif_vars, load_vars, geom_vars>>

NextContainers ==
    \/ NoIdSet /\ Len(models) < MaxHeldModels /\ ChildAddModel
    \/ NoIdSet /\ Len(chains) < MaxHeldChains /\ ChildAddChain
    \/ NoIdSet /\ Len(frags) < MaxHeldFrags /\ ChildAddFragment
    \/ NoIdSet /\ SegmentNew
    \/ NoIdSet /\ SegmentAddFragment
    \/ NoIdSet /\ ChildRemoveModel
    \/ NoIdSet /\ ChildRemoveChain
    \/ NoIdSet /\ ChildRemoveFragment
    \/ SetModelId
    \/ SetChainId
    \/ SetFragmentId

SpecContainers == InitStruct /\ [][NextContainers]_vars

\* the list and the dict hold the same children, each once and under the
\* id it has now
SameChildren(list, dict, id(_)) ==
    /\ \A j, k \in 1..Len(list) : list[j] = list[k] => j = k
    /\ \A j \in 1..Len(list) : has_key(dict, id(list[j])) /\ dict[id(list[j])] = list[j]
    /\ \A key \in DOMAIN dict : dict[key] \in Range(list)

\* C37: at every state reached through the add, remove and id-change
\* operations of Structure, Model, Segment/Chain and Fragment, each
\* container's id lookup and child list hold exactly the same children, each
\* child is stored under its own current id, and no child appears twice;
\* this includes a Fragment held by a plain Segment whose id is changed with
\* Fragment.set_fragment_id.
C37_ContainersAgree ==
    /\ SameChildren(structure.model_list, structure.model_dict,
                    LAMBDA m : models[m].model_id)
    /\ \A m \in 1..Len(models) :
          SameChildren(models[m].chain_list, models[m].chain_dict,
                       LAMBDA c : chains[c].chain_id)
    /\ \A c \in 1..Len(chains) :
          SameChildren(chains[c].fragment_list, chains[c].fragment_dict,
                       LAMBDA f : frags[f].fragment_id)

\* C37, the Structure, the Models and the Chains only
C37_ChainsAgree ==
    /\ SameChildren(structure.model_list, structure.model_dict,
                    LAMBDA m : models[m].model_id)
    /\ \A m \in 1..Len(models) :
          SameChildren(models[m].chain_list, models[m].chain_dict,
                       LAMBDA c : chains[c].chain_id)
    /\ \A c \in (1..Len(chains)) \ Segments :
          SameChildren(chains[c].fragment_list, chains[c].fragment_dict,
                       LAMBDA f : frags[f].fragment_id)

-----------------------------------------------------------------------------
(* Structure.py: remove_atom, from the Structure down to the Fragment *)

\* Structure.remove_atom, Model.remove_atom and Segment.remove_atom: the
\* Model, the Chain and the Fragment are looked up under the ids of the atom
Structure_remove_atom(W, a) ==
    IF ~has_key(W.structure.model_dict, W.atoms[a].model_id) THEN Raise(W, "KeyError")
    ELSE LET m == W.structure.model_dict[W.atoms[a].model_id]
         IN  IF ~has_key(W.models[m].chain_dict, W.atoms[a].chain_id)
             THEN Raise(W, "KeyError")
             ELSE LET c == W.models[m].chain_dict[W.atoms[a].chain_id]
                  IN  IF ~has_key(W.chains[c].fragment_dict, W.atoms[a].fragment_id)
                      THEN Raise(W, "KeyError")
                      ELSE LET fh == W.chains[c].fragment_dict[W.atoms[a].fragment_id]
                               r  == Fragment_remove_atom(W.frags[fh], W.atoms, a)
                           IN  IF W.atoms[a].fragment # fh
                               THEN Raise(W, "AssertionError")
                               ELSE Ok([W EXCEPT !.frags[fh] = r.frag,
                                                 !.atoms = r.atoms])

-----------------------------------------------------------------------------
(* Atoms added, bonded and removed *)

MaxUnbondAtoms == 3

\* the atoms added: carbons of two names, with and without a label, at two
\* positions 1.5 apart
UnbondAtoms ==
    {PlacedAtom(1, name, alt_loc, "C", position) :
        name \in {"N", "CA"}, alt_loc \in BondAltLocs,
        position \in {<<0, 0, 0>>, <<150, 0, 0>>}}

\* structure.add_atom(Atom(..., element, position)) with a new Atom
UnbondAddAtom ==
    \E atom \in UnbondAtoms :
        /\ Len(atoms) < MaxUnbondAtoms
        /\ DoStructAddAtom(atom, FALSE)
        /\ UNCHANGED <<cif_vars, load_vars, geom_vars>>

\* structure.add_bonds_from_covalent_distance(), after an add or a removal
UnbondInfer ==
    /\ last.op # "add_bonds_from_covalent_distance"
    /\ BondInfer

\* structure.remove_atom(atom)
BondStructRemoveAtom ==
    \E a \in 1..Len(atoms) :
    \E r \in {Structure_remove_atom(World, a)} :
        /\ atoms[a].fragment # None
        /\ SetWorld(r.W)
        /\ last' = Call("Structure.remove_atom", a, atoms[a].alt_loc, None, r.err)
        /\ UNCHANGED <<cif_vars, load_vars, geom_vars>>

\* atom.fragment.remove_atom(atom)
BondFragRemoveAtom ==
    \E a \in 1..Len(atoms) :
        /\ atoms[a].fragment # None
        /\ \E r \in {Fragment_remove_atom(frags[atoms[a].fragment], atoms, a)} :
              /\ frags' = [frags EXCEPT ![atoms[a].fragment] = r.frag]
              /\ atoms' = r.atoms
        /\ last' = Call("Fragment.remove_atom", a, atoms[a].alt_loc, atoms[a].fragment, "")
        /\ UNCHANGED <<structure, models, chains, cif_vars, load_vars, geom_vars>>

NextUnbond ==
    \/ UnbondAddAtom
    \/ UnbondInfer
    \/ BondStructRemoveAtom
    \/ BondFragRemoveAtom

SpecUnbond == InitStruct /\ [][NextUnbond]_vars

\* the atoms that are in the structure
InStructure(atms) == {a \in DOMAIN atms : atms[a].fragment # None}

\* C38: after Structure.remove_atom(a) or Fragment.remove_atom(a) no atom
\* that remains in the structure holds a Bond whose other endpoint is a:
\* every Bond reachable from an atom of the structure has both endpoints in
\* the structure.
C38_NoBondToRemovedAtom ==
    [][ (last'.op \in {"Structure.remove_atom", "Fragment.remove_atom"} /\ last'.err = "")
        => \A b \in InStructure(atoms') :
              \A n \in DOMAIN atoms'[b].bond_list :
                 {atoms'[b].bond_list[n].atom1, atoms'[b].bond_list[n].atom2}
                     \subseteq InStructure(atoms') ]_vars

-----------------------------------------------------------------------------
(* The tables of a parsed text *)

\* C39: after a successful parse every Row of every Table holds a value for
\* each of the Table's columns and for no other column, also when single
\* assignments and a loop in the same section name the same table.
C39_RowsHoldEveryColumn ==
    (parser.pc = "returned")
    => \A d \in DOMAIN parser.data_list :
          \A j \in DOMAIN parser.data_list[d].tables :
             \A table \in {parser.data_list[d].tables[j]} :
                \A n \in DOMAIN table.rows :
                   DOMAIN table.rows[n] = Range(table.columns)

\* C40: after a successful parse every Table of a data section is reachable
\* by its name: no two Tables of one section share a name, so
\* getTable(t.name) returns t for each Table t the parser added, also when
\* the section holds two loops, or a single assignment followed by a loop,
\* for the same table name.
C40_TablesReachableByName ==
    (parser.pc = "returned")
    => \A d \in DOMAIN parser.data_list :
          \A j \in DOMAIN parser.data_list[d].tables :
             mmCIFData_getTable(parser.data_list[d],
                                parser.data_list[d].tables[j].name) = j

=============================================================================
